---- MODULE Spec2Model ----
(***************************************************************************)
(* Model of the document core of drglk/FileServer: the document service    *)
(* (internal/services/document/service.go), the metadata repository        *)
(* (package documentrepo), the cache repository and the blob store it      *)
(* drives.  One action per service operation; every collaborator call an   *)
(* operation makes is recorded, in order, in last.calls.                   *)
(***************************************************************************)
EXTENDS Integers, Sequences, FiniteSets, TLC

VARIABLES
  documents,  \* table documents: document id -> row
  grants,     \* table grants: sequence of rows [document_id, user_id] in insertion order
  blobs,      \* blob store: document id -> content
  cache,      \* key/value cache: key -> serialized value
  nextID,     \* ordinal of the next generated identifier
  last,       \* the operation that ran last: inputs, result, collaborator calls
  phase       \* scripted runs: the number of script steps taken (0 in free runs)

vars == <<documents, grants, blobs, cache, nextID, last, phase>>

------------------------------------------------------------------------------
(* Bounds *)

\* number of UploadDocument calls in a behaviour (identifiers generated)
MaxDocs == 1
\* longest grant list a caller passes
MaxGrants == 2
\* number of collaborator calls the environment fails within one operation
MaxFaults == 2

------------------------------------------------------------------------------
(* Values *)

\* models/errors.go
ErrInternal == "internal server error"
ErrForbidden == "access denied"
ErrInvalidParams == "invalid params"
ErrDocumentNotFound == "document not found"
\* the nil error
Nil == "nil"
\* an error of a collaborator that is none of the sentinels (driver, network)
ErrOther == "collaborator error"

\* rows of table users: the identities the session layer resolves requesters to
Users == { [ID |-> "id-a", Login |-> "alice"], [ID |-> "id-b", Login |-> "bob"] }
UserIDs == {u.ID : u \in Users}
LoginOfUser(id) == (CHOOSE u \in Users : u.ID = id).Login

\* uuid.NewV4().String(): the n-th generated identifier
NewID(n) == "doc-" \o ToString(n)

Range(s) == {s[i] : i \in 1..Len(s)}
\* slices.Contains
Contains(s, x) == x \in Range(s)

\* a map with one key set / removed
Put(m, k, v) == [x \in DOMAIN m \cup {k} |-> IF x = k THEN v ELSE m[x]]
Drop(m, ks) == [x \in DOMAIN m \ ks |-> m[x]]

------------------------------------------------------------------------------
(* The world an operation runs in, and the record of its collaborator calls *)

World == [documents |-> documents, grants |-> grants, blobs |-> blobs,
          cache |-> cache, calls |-> <<>>]

\* number of calls named name made so far in the running operation
CountCalls(calls, name) == Cardinality({i \in 1..Len(calls) : calls[i].call = name})

\* the outcome the environment imposes on the next call named name: "ok" unless
\* the fault set F holds <<name, ordinal of that call, outcome>>
Imposed(w, name, F) ==
  LET n == CountCalls(w.calls, name) + 1
  IN IF \E f \in F : f[1] = name /\ f[2] = n
       THEN (CHOOSE f \in F : f[1] = name /\ f[2] = n)[3]
       ELSE "ok"

\* append a call to the record; alt: the other outcomes the collaborator could
\* have produced at this call
Called(w, name, arg, ok, alt) ==
  [w EXCEPT !.calls = Append(@, [call |-> name, arg |-> arg, ok |-> ok, alt |-> alt])]

------------------------------------------------------------------------------
(* JSON (encoding/json over models.Document) *)

\* the empty string
Empty == <<>>

\* the nil *models.Document (no field of it is ever read) and the nil stream
NoDoc == [ID |-> "", OwnerID |-> "", Name |-> "", Mime |-> "", IsFile |-> FALSE,
          IsPublic |-> FALSE, JSONData |-> "", Grants |-> <<>>, CreatedAt |-> 0]
NoFile == [open |-> FALSE, bytes |-> <<>>]

\* the grants are not serialized
docToJSON_NoGrants(doc) ==
  <<"object", [id |-> doc.ID, owner_id |-> doc.OwnerID, name |-> doc.Name,
               mime |-> doc.Mime, is_file |-> doc.IsFile, is_public |-> doc.IsPublic,
               json_data |-> doc.JSONData, grants |-> <<>>,
               created_at |-> doc.CreatedAt]>>

docToJSON(doc) ==
  <<"object", [id |-> doc.ID, owner_id |-> doc.OwnerID, name |-> doc.Name,
               mime |-> doc.Mime, is_file |-> doc.IsFile, is_public |-> doc.IsPublic,
               json_data |-> doc.JSONData, grants |-> doc.Grants,
               created_at |-> doc.CreatedAt]>>

\* [doc, err]
jsonToDoc(s) ==
  IF Len(s) = 0 \/ s[1] # "object"
    THEN [doc |-> NoDoc, err |-> ErrOther]
    ELSE [doc |-> [ID |-> s[2].id, OwnerID |-> s[2].owner_id, Name |-> s[2].name,
                   Mime |-> s[2].mime, IsFile |-> s[2].is_file,
                   IsPublic |-> s[2].is_public, JSONData |-> s[2].json_data,
                   Grants |-> s[2].grants, CreatedAt |-> s[2].created_at],
          err |-> Nil]

docsToJSON(docs) == <<"array", [i \in 1..Len(docs) |-> docToJSON(docs[i])[2]]>>

\* [docs, err]
jsonToDocs(s) ==
  IF Len(s) = 0 \/ s[1] # "array"
    THEN [docs |-> <<>>, err |-> ErrOther]
    ELSE [docs |-> [i \in 1..Len(s[2]) |-> jsonToDoc(<<"object", s[2][i]>>).doc],
          err |-> Nil]

------------------------------------------------------------------------------
(* Cache repository over the redis client *)

\* [w, val, err]: a missing key is the empty string and no error
CacheGet(w, key, F) ==
  IF Imposed(w, "Get", F) = "ok"
    THEN [w |-> Called(w, "Get", <<key>>, TRUE, {"err"}),
          val |-> IF key \in DOMAIN w.cache THEN w.cache[key] ELSE Empty,
          err |-> Nil]
    ELSE [w |-> Called(w, "Get", <<key>>, FALSE, {}), val |-> Empty, err |-> ErrOther]

\* [w, err]
CacheSet(w, key, value, F) ==
  IF Imposed(w, "Set", F) = "ok"
    THEN [w |-> Called([w EXCEPT !.cache = Put(@, key, value)], "Set", <<key>>, TRUE, {"err"}),
          err |-> Nil]
    ELSE [w |-> Called(w, "Set", <<key>>, FALSE, {}), err |-> ErrOther]

\* [w, err]: keys is a sequence
CacheDel(w, keys, F) ==
  IF Imposed(w, "Del", F) = "ok"
    THEN [w |-> Called([w EXCEPT !.cache = Drop(@, Range(keys))], "Del", keys, TRUE, {"err"}),
          err |-> Nil]
    ELSE [w |-> Called(w, "Del", keys, FALSE, {}), err |-> ErrOther]

------------------------------------------------------------------------------
(* Blob store (interface FileStorage) *)

\* [w, err]
SaveFile(w, doc, content, F) ==
  IF Imposed(w, "SaveFile", F) = "ok"
    THEN [w |-> Called([w EXCEPT !.blobs = Put(@, doc.ID, content)],
                       "SaveFile", <<doc.ID>>, TRUE, {"err"}),
          err |-> Nil]
    ELSE [w |-> Called(w, "SaveFile", <<doc.ID>>, FALSE, {}), err |-> ErrOther]

\* [w, file, err]
LoadFile(w, doc, F) ==
  IF doc.ID \notin DOMAIN w.blobs
    THEN [w |-> Called(w, "LoadFile", <<doc.ID>>, FALSE, {}),
          file |-> NoFile, err |-> ErrDocumentNotFound]
    ELSE IF Imposed(w, "LoadFile", F) = "ok"
      THEN [w |-> Called(w, "LoadFile", <<doc.ID>>, TRUE, {"err"}),
            file |-> [open |-> TRUE, bytes |-> w.blobs[doc.ID]], err |-> Nil]
      ELSE [w |-> Called(w, "LoadFile", <<doc.ID>>, FALSE, {}),
            file |-> NoFile, err |-> ErrOther]

\* [w, err]
DeleteFile(w, doc, F) ==
  IF Imposed(w, "DeleteFile", F) # "ok"
    THEN [w |-> Called(w, "DeleteFile", <<doc.ID>>, FALSE, {}), err |-> ErrOther]
    ELSE IF doc.ID \notin DOMAIN w.blobs
      THEN [w |-> Called(w, "DeleteFile", <<doc.ID>>, FALSE, {}),
            err |-> ErrDocumentNotFound]
      ELSE [w |-> Called([w EXCEPT !.blobs = Drop(@, {doc.ID})],
                         "DeleteFile", <<doc.ID>>, TRUE, {"err"}),
            err |-> Nil]

------------------------------------------------------------------------------
(* Metadata repository (package documentrepo) over tables documents, grants *)

\* rows of table grants that reference document id
GrantRows(w, id) == SelectSeq(w.grants, LAMBDA g : g.document_id = id)

\* getGrants: the logins of the users granted, through the join with users
getGrants(w, docID) ==
  LET rows == GrantRows(w, docID)
  IN [i \in 1..Len(rows) |-> LoginOfUser(rows[i].user_id)]

\* a models.Document from a row and its grants
DocOfRow(w, row) ==
  [ID |-> row.id, OwnerID |-> row.owner_id, Name |-> row.name, Mime |-> row.mime,
   IsFile |-> row.is_file, IsPublic |-> row.is_public, JSONData |-> row.json_data,
   Grants |-> getGrants(w, row.id), CreatedAt |-> row.created_at]

\* [w, err]: INSERT INTO documents; id is the primary key, owner_id references users
CreateDocument(w, doc, F) ==
  IF Imposed(w, "CreateDocument", F) # "ok"
    THEN [w |-> Called(w, "CreateDocument", <<doc.ID>>, FALSE, {}), err |-> ErrOther]
    ELSE IF doc.ID \in DOMAIN w.documents \/ doc.OwnerID \notin UserIDs
      THEN [w |-> Called(w, "CreateDocument", <<doc.ID>>, FALSE, {}), err |-> ErrOther]
      ELSE [w |-> Called([w EXCEPT !.documents = Put(@, doc.ID,
                            [id |-> doc.ID, owner_id |-> doc.OwnerID, name |-> doc.Name,
                             mime |-> doc.Mime, is_file |-> doc.IsFile,
                             is_public |-> doc.IsPublic, json_data |-> doc.JSONData,
                             created_at |-> doc.CreatedAt])],
                         "CreateDocument", <<doc.ID>>, TRUE, {"err"}),
            err |-> Nil]

\* [w, doc, err]: sql.ErrNoRows becomes ErrDocumentNotFound
RepoDocumentByID(w, id, F) ==
  IF Imposed(w, "DocumentByID", F) # "ok"
    THEN [w |-> Called(w, "DocumentByID", <<id>>, FALSE, {}), doc |-> NoDoc, err |-> ErrOther]
    ELSE IF id \notin DOMAIN w.documents
      THEN [w |-> Called(w, "DocumentByID", <<id>>, FALSE, {}),
            doc |-> NoDoc, err |-> ErrDocumentNotFound]
      ELSE [w |-> Called(w, "DocumentByID", <<id>>, TRUE, {"err"}),
            doc |-> DocOfRow(w, w.documents[id]), err |-> Nil]

\* [w, err]: DELETE FROM documents WHERE id = $1.  grants.document_id references
\* documents(id) with no ON DELETE action, so a row with grant rows cannot be
\* deleted.  Deleting no row is no error for this repository; the service also
\* accepts a repository that reports ErrDocumentNotFound then ("notfound").
RepoDelete(w, id, F) ==
  LET o == Imposed(w, "Delete", F)
  IN IF o = "err" \/ Len(GrantRows(w, id)) > 0
       THEN [w |-> Called(w, "Delete", <<id>>, FALSE, {}), err |-> ErrOther]
       ELSE IF id \in DOMAIN w.documents
         THEN [w |-> Called([w EXCEPT !.documents = Drop(@, {id})],
                            "Delete", <<id>>, TRUE, {"err"}),
               err |-> Nil]
         ELSE IF o = "notfound"
           THEN [w |-> Called(w, "Delete", <<id>>, FALSE, {}), err |-> ErrDocumentNotFound]
           ELSE [w |-> Called(w, "Delete", <<id>>, TRUE, {"err", "notfound"}), err |-> Nil]

\* the rows INSERT INTO grants adds one by one; an insert fails on a row that
\* breaks the primary key (document_id, user_id) or a foreign key
InsertsOK(w, docID, userIDs) ==
  \A i \in 1..Len(userIDs) :
       /\ docID \in DOMAIN w.documents
       /\ userIDs[i] \in UserIDs
       /\ \A j \in 1..(i-1) : userIDs[j] # userIDs[i]

\* the new rows are added to the document's grant rows, none is deleted
RepoGrantAccess_Merge(w, docID, userIDs, F) ==
  IF Imposed(w, "GrantAccess", F) # "ok" \/ ~InsertsOK(w, docID, userIDs)
    THEN [w |-> Called(w, "GrantAccess", <<docID>> \o userIDs, FALSE, {}), err |-> ErrOther]
    ELSE [w |-> Called([w EXCEPT !.grants =
                          @ \o [i \in 1..Len(userIDs) |->
                                  [document_id |-> docID, user_id |-> userIDs[i]]]],
                       "GrantAccess", <<docID>> \o userIDs, TRUE, {"err"}),
          err |-> Nil]

\* [w, err]: one transaction: delete the document's grant rows, insert the new
\* ones, commit; any failure rolls all of it back
RepoGrantAccess(w, docID, userIDs, F) ==
  IF Imposed(w, "GrantAccess", F) # "ok" \/ ~InsertsOK(w, docID, userIDs)
    THEN [w |-> Called(w, "GrantAccess", <<docID>> \o userIDs, FALSE, {}), err |-> ErrOther]
    ELSE [w |-> Called([w EXCEPT !.grants =
                          SelectSeq(@, LAMBDA g : g.document_id # docID)
                          \o [i \in 1..Len(userIDs) |->
                                [document_id |-> docID, user_id |-> userIDs[i]]]],
                       "GrantAccess", <<docID>> \o userIDs, TRUE, {"err"}),
          err |-> Nil]

------------------------------------------------------------------------------
(* Document service: access decisions *)

\* grants matched by user ID instead of login
hasReadAccess_GrantsByID(doc, userID, userLogin) ==
  doc.IsPublic \/ doc.OwnerID = userID \/ Contains(doc.Grants, userID)

hasReadAccess(doc, userID, userLogin) ==
  doc.IsPublic \/ doc.OwnerID = userID \/ Contains(doc.Grants, userLogin)

\* everybody may delete a public document
hasDeleteAccess_Public(doc, userID) == doc.OwnerID = userID \/ doc.IsPublic

hasDeleteAccess(doc, userID) == doc.OwnerID = userID

\* the check left out
hasGrantAccess_Always(doc, userID) == TRUE

hasGrantAccess(doc, userID) == doc.OwnerID = userID

------------------------------------------------------------------------------
(* Document service: cache keys *)

\* fmt.Sprintf("docs:%s", login)
UserCacheKey(login) == "docs:" \o login

\* fmt.Sprintf("docs:%s:%s:%s:%s:%v", requester.Login, login, Key, Value, Limit)
ListCacheKey(requesterLogin, login, filter) ==
  "docs:" \o requesterLogin \o ":" \o login \o ":" \o filter.Key \o ":"
          \o filter.Value \o ":" \o ToString(filter.Limit)

------------------------------------------------------------------------------
(* Document service: metadata resolution through the cache *)

\* a failed store read is tried once more
MetaFromStore_ReadAgain(w, docID, F) ==
  LET r1 == RepoDocumentByID(w, docID, F)
      r == IF r1.err \notin {Nil, ErrDocumentNotFound}
             THEN RepoDocumentByID(r1.w, docID, F) ELSE r1
  IN IF r.err # Nil
       THEN [w |-> r.w, doc |-> NoDoc,
             err |-> IF r.err = ErrDocumentNotFound THEN ErrDocumentNotFound
                     ELSE ErrInternal]
       ELSE [w |-> CacheSet(r.w, docID, docToJSON(r.doc), F).w, doc |-> r.doc, err |-> Nil]

\* every store error is reported as ErrInternal
MetaFromStore_NotFoundAsInternal(w, docID, F) ==
  LET r == RepoDocumentByID(w, docID, F)
  IN IF r.err # Nil
       THEN [w |-> r.w, doc |-> NoDoc, err |-> ErrInternal]
       ELSE [w |-> CacheSet(r.w, docID, docToJSON(r.doc), F).w, doc |-> r.doc, err |-> Nil]

\* a failed cache Set fails the resolution
MetaFromStore_SurfaceSetError(w, docID, F) ==
  LET r == RepoDocumentByID(w, docID, F)
  IN IF r.err # Nil
       THEN [w |-> r.w, doc |-> NoDoc,
             err |-> IF r.err = ErrDocumentNotFound THEN ErrDocumentNotFound
                     ELSE ErrInternal]
       ELSE IF CacheSet(r.w, docID, docToJSON(r.doc), F).err # Nil
         THEN [w |-> CacheSet(r.w, docID, docToJSON(r.doc), F).w, doc |-> NoDoc,
               err |-> ErrInternal]
         ELSE [w |-> CacheSet(r.w, docID, docToJSON(r.doc), F).w, doc |-> r.doc,
               err |-> Nil]

\* the store read of documentMetaByID after a cache miss: [w, doc, err]
MetaFromStore(w, docID, F) ==
  LET r == RepoDocumentByID(w, docID, F)
  IN IF r.err # Nil
       THEN [w |-> r.w, doc |-> NoDoc,
             err |-> IF r.err = ErrDocumentNotFound THEN ErrDocumentNotFound
                     ELSE ErrInternal]
       ELSE [w |-> CacheSet(r.w, docID, docToJSON(r.doc), F).w, doc |-> r.doc, err |-> Nil]

\* an entry that does not deserialize is a miss
documentMetaByID_FallBack(w, docID, F) ==
  LET g == CacheGet(w, docID, F)
  IN IF g.err # Nil \/ g.val = Empty \/ jsonToDoc(g.val).err # Nil
       THEN MetaFromStore(g.w, docID, F)
       ELSE [w |-> g.w, doc |-> jsonToDoc(g.val).doc, err |-> Nil]

\* [w, doc, err]
documentMetaByID(w, docID, F) ==
  LET g == CacheGet(w, docID, F)
  IN IF g.err # Nil \/ g.val = Empty
       THEN MetaFromStore(g.w, docID, F)
       ELSE LET d == jsonToDoc(g.val)
            IN IF d.err # Nil
                 THEN [w |-> g.w, doc |-> NoDoc, err |-> ErrInternal]
                 ELSE [w |-> g.w, doc |-> d.doc, err |-> Nil]

------------------------------------------------------------------------------
(* Document service: DocumentByID *)

\* the blob is opened before the access check
DocumentByID_LoadFirst(w, docID, requester, F) ==
  LET m == documentMetaByID(w, docID, F)
  IN IF m.err # Nil
       THEN [w |-> m.w, doc |-> NoDoc, file |-> NoFile, err |-> m.err, resolved |-> NoDoc]
       ELSE LET l == IF m.doc.IsFile THEN LoadFile(m.w, m.doc, F)
                     ELSE [w |-> m.w, file |-> NoFile, err |-> Nil]
            IN IF ~hasReadAccess(m.doc, requester.ID, requester.Login)
                 THEN [w |-> l.w, doc |-> NoDoc, file |-> NoFile, err |-> ErrForbidden,
                       resolved |-> m.doc]
                 ELSE IF l.err # Nil
                   THEN [w |-> l.w, doc |-> NoDoc, file |-> NoFile, err |-> ErrInternal,
                         resolved |-> m.doc]
                   ELSE [w |-> l.w, doc |-> m.doc, file |-> l.file, err |-> Nil,
                         resolved |-> m.doc]

\* [w, doc, file, err]; resolved: the document the access check ran on
DocumentByID(w, docID, requester, F) ==
  LET m == documentMetaByID(w, docID, F)
  IN IF m.err # Nil
       THEN [w |-> m.w, doc |-> NoDoc, file |-> NoFile, err |-> m.err, resolved |-> NoDoc]
       ELSE IF ~hasReadAccess(m.doc, requester.ID, requester.Login)
         THEN [w |-> m.w, doc |-> NoDoc, file |-> NoFile, err |-> ErrForbidden,
               resolved |-> m.doc]
         ELSE IF m.doc.IsFile
           THEN LET l == LoadFile(m.w, m.doc, F)
                IN IF l.err # Nil
                     THEN [w |-> l.w, doc |-> NoDoc, file |-> NoFile, err |-> ErrInternal,
                           resolved |-> m.doc]
                     ELSE [w |-> l.w, doc |-> m.doc, file |-> l.file, err |-> Nil,
                           resolved |-> m.doc]
           ELSE [w |-> m.w, doc |-> m.doc, file |-> NoFile, err |-> Nil, resolved |-> m.doc]

------------------------------------------------------------------------------
(* Document service: UploadDocument *)

\* for _, grant := range grantList { cache.Del("docs:"+grant) }: errors are logged
RECURSIVE InvalidateGrants(_, _, _)
InvalidateGrants(w, grantList, F) ==
  IF Len(grantList) = 0 THEN w
  ELSE InvalidateGrants(CacheDel(w, <<UserCacheKey(Head(grantList))>>, F).w,
                        Tail(grantList), F)

\* lines 85-91: the requester's key is invalidated and the ID returned
UploadFinish(w, requester, doc, F) ==
  [w |-> CacheDel(w, <<UserCacheKey(requester.Login)>>, F).w, id |-> doc.ID, err |-> Nil]

\* the blob is deleted before the metadata record
UploadGrantsFailed_BlobFirst(w, doc, F) ==
  [w |-> RepoDelete(IF doc.IsFile THEN DeleteFile(w, doc, F).w ELSE w, doc.ID, F).w,
   id |-> "", err |-> ErrInternal]

\* the blob is removed and the metadata record forgotten
UploadGrantsFailed_KeepRecord(w, doc, F) ==
  [w |-> IF doc.IsFile THEN DeleteFile(w, doc, F).w ELSE w, id |-> "", err |-> ErrInternal]

\* lines 71-76: the compensating deletes after a failed grant persistence
UploadGrantsFailed(w, doc, F) ==
  LET d == RepoDelete(w, doc.ID, F)
  IN [w |-> IF doc.IsFile THEN DeleteFile(d.w, doc, F).w ELSE d.w,
      id |-> "", err |-> ErrInternal]

\* lines 68-83
UploadGrants(w, requester, doc, F) ==
  IF Len(doc.Grants) > 0
    THEN LET g == RepoGrantAccess(w, doc.ID, doc.Grants, F)
         IN IF g.err # Nil
              THEN UploadGrantsFailed(g.w, doc, F)
              ELSE UploadFinish(InvalidateGrants(g.w, doc.Grants, F), requester, doc, F)
    ELSE UploadFinish(w, requester, doc, F)

\* the error of the compensating delete replaces the reported one
UploadCreateFailed_ReportCleanup(w, doc, F) ==
  IF doc.IsFile
    THEN LET f == DeleteFile(w, doc, F)
         IN [w |-> f.w, id |-> "",
             err |-> IF f.err = Nil THEN ErrInternal ELSE ErrDocumentNotFound]
    ELSE [w |-> w, id |-> "", err |-> ErrInternal]

\* lines 59-66: the compensating delete after a failed metadata write
UploadCreateFailed(w, doc, F) ==
  [w |-> IF doc.IsFile THEN DeleteFile(w, doc, F).w ELSE w, id |-> "", err |-> ErrInternal]

\* lines 58-91
UploadMetadata(w, requester, doc, F) ==
  LET c == CreateDocument(w, doc, F)
  IN IF c.err # Nil
       THEN UploadCreateFailed(c.w, doc, F)
       ELSE UploadGrants(c.w, requester, doc, F)

\* an ID the caller supplies is kept
UploadDocument_KeepCallerID(w, requester, doc0, content, id, now, F) ==
  LET doc == [doc0 EXCEPT !.ID = IF doc0.ID = "" THEN id ELSE doc0.ID,
                          !.CreatedAt = now]
  IN IF doc.IsFile
       THEN LET s == SaveFile(w, doc, content, F)
            IN IF s.err # Nil
                 THEN [w |-> s.w, id |-> "", err |-> ErrInternal]
                 ELSE UploadMetadata(s.w, requester, doc, F)
       ELSE UploadMetadata(w, requester, doc, F)

\* a failed SaveFile is logged and the upload goes on
UploadDocument_IgnoreSaveError(w, requester, doc0, content, id, now, F) ==
  LET doc == [doc0 EXCEPT !.ID = id, !.CreatedAt = now]
  IN IF doc.IsFile
       THEN UploadMetadata(SaveFile(w, doc, content, F).w, requester, doc, F)
       ELSE UploadMetadata(w, requester, doc, F)

\* the content is never saved
UploadDocument_NoSave(w, requester, doc0, content, id, now, F) ==
  UploadMetadata(w, requester, [doc0 EXCEPT !.ID = id, !.CreatedAt = now], F)

\* [w, id, err]; id: the identifier uuid.NewV4 generates, now: time.Now()
UploadDocument(w, requester, doc0, content, id, now, F) ==
  LET doc == [doc0 EXCEPT !.ID = id, !.CreatedAt = now]
  IN IF doc.IsFile
       THEN LET s == SaveFile(w, doc, content, F)
            IN IF s.err # Nil
                 THEN [w |-> s.w, id |-> "", err |-> ErrInternal]
                 ELSE UploadMetadata(s.w, requester, doc, F)
       ELSE UploadMetadata(w, requester, doc, F)

------------------------------------------------------------------------------
(* Document service: DeleteDocument *)

\* every DeleteFile error is reported as ErrInternal
DeleteBlob_AllInternal(w, doc, F) ==
  IF doc.IsFile
    THEN LET f == DeleteFile(w, doc, F)
         IN [w |-> f.w, err |-> IF f.err = Nil THEN Nil ELSE ErrInternal]
    ELSE [w |-> w, err |-> Nil]

\* lines 160-175: the blob step
DeleteBlob(w, doc, F) ==
  IF doc.IsFile
    THEN LET f == DeleteFile(w, doc, F)
         IN [w |-> f.w,
             err |-> IF f.err = Nil THEN Nil
                     ELSE IF f.err = ErrDocumentNotFound THEN ErrDocumentNotFound
                     ELSE ErrInternal]
    ELSE [w |-> w, err |-> Nil]

\* the document's own entry is left in the cache
DeleteResolved_KeepDocEntry(w, docID, requester, doc, F) ==
  LET d == RepoDelete(w, docID, F)
  IN IF d.err # Nil /\ d.err # ErrDocumentNotFound
       THEN [w |-> d.w, err |-> ErrInternal]
       ELSE DeleteBlob(CacheDel(d.w, <<UserCacheKey(requester.Login)>>, F).w, doc, F)

\* the error of the metadata deletion is returned after the invalidation and
\* the blob step
DeleteResolved_InvalidateAnyway(w, docID, requester, doc, F) ==
  LET d == RepoDelete(w, docID, F)
      b == DeleteBlob(CacheDel(d.w, <<doc.ID, UserCacheKey(requester.Login)>>, F).w, doc, F)
  IN IF d.err # Nil /\ d.err # ErrDocumentNotFound
       THEN [w |-> b.w, err |-> ErrInternal]
       ELSE b

\* a metadata deletion that reports ErrDocumentNotFound fails the delete
DeleteResolved_NotFoundIsError(w, docID, requester, doc, F) ==
  LET d == RepoDelete(w, docID, F)
  IN IF d.err # Nil
       THEN [w |-> d.w, err |-> ErrInternal]
       ELSE DeleteBlob(CacheDel(d.w, <<doc.ID, UserCacheKey(requester.Login)>>, F).w, doc, F)

\* lines 144-175: the owner's delete, doc being the resolved document
DeleteResolved(w, docID, requester, doc, F) ==
  LET d == RepoDelete(w, docID, F)
  IN IF d.err # Nil /\ d.err # ErrDocumentNotFound
       THEN [w |-> d.w, err |-> ErrInternal]
       ELSE DeleteBlob(CacheDel(d.w, <<doc.ID, UserCacheKey(requester.Login)>>, F).w, doc, F)

\* [w, err, resolved]
DeleteDocument(w, docID, requester, F) ==
  LET m == documentMetaByID(w, docID, F)
  IN IF m.err # Nil
       THEN [w |-> m.w, err |-> m.err, resolved |-> NoDoc]
       ELSE IF ~hasDeleteAccess(m.doc, requester.ID)
         THEN [w |-> m.w, err |-> ErrForbidden, resolved |-> m.doc]
         ELSE LET r == DeleteResolved(m.w, docID, requester, m.doc, F)
              IN [w |-> r.w, err |-> r.err, resolved |-> m.doc]

------------------------------------------------------------------------------
(* Document service: GrantAccess *)

\* the document's own entry is left in the cache
GrantInvalidate_KeepDocEntry(w, requester, doc, F) ==
  InvalidateGrants(CacheDel(w, <<UserCacheKey(requester.Login)>>, F).w, doc.Grants, F)

\* lines 201-212: the document's entry and the requester's key, then the keys of
\* the grants the resolved document carried
GrantInvalidate(w, requester, doc, F) ==
  InvalidateGrants(CacheDel(w, <<doc.ID, UserCacheKey(requester.Login)>>, F).w,
                   doc.Grants, F)

\* the keys of the new grantees are invalidated as well
GrantResolved_InvalidateNew(w, docID, requester, doc, grantList, F) ==
  LET g == RepoGrantAccess(w, docID, grantList, F)
  IN IF g.err # Nil
       THEN [w |-> g.w, err |-> ErrInternal]
       ELSE [w |-> InvalidateGrants(GrantInvalidate(g.w, requester, doc, F),
                                    [i \in 1..Len(grantList) |->
                                       LoginOfUser(grantList[i])], F),
             err |-> Nil]

\* lines 196-216: the owner's replacement, doc being the resolved document
GrantResolved(w, docID, requester, doc, grantList, F) ==
  LET g == RepoGrantAccess(w, docID, grantList, F)
  IN IF g.err # Nil
       THEN [w |-> g.w, err |-> ErrInternal]
       ELSE [w |-> GrantInvalidate(g.w, requester, doc, F), err |-> Nil]

\* [w, err, resolved]
GrantAccess(w, docID, requester, grantList, F) ==
  LET m == documentMetaByID(w, docID, F)
  IN IF m.err # Nil
       THEN [w |-> m.w, err |-> m.err, resolved |-> NoDoc]
       ELSE IF ~hasGrantAccess(m.doc, requester.ID)
         THEN [w |-> m.w, err |-> ErrForbidden, resolved |-> m.doc]
         ELSE LET r == GrantResolved(m.w, docID, requester, m.doc, grantList, F)
              IN [w |-> r.w, err |-> r.err, resolved |-> m.doc]

------------------------------------------------------------------------------
(* Metadata repository: FilteredDocuments *)

\* the strings documents are named by, in the collation order of ORDER BY
Names == <<"a.txt", "b.txt">>
NameRank(name) == CHOOSE i \in 1..Len(Names) : Names[i] = name

\* DocumentFilter.IsValid
allowedKeys == {"name", "mime"}
\* only the allow-list is checked
IsValid_AllowListOnly(f) == f.Key = "" \/ f.Key \in allowedKeys

IsValid(f) ==
  IF f.Key = "" /\ f.Value # "" THEN FALSE
  ELSE IF f.Key # "" /\ f.Key \notin allowedKeys THEN FALSE
  ELSE TRUE

\* the WHERE clause without its visibility condition
JoinedRows_AllVisible(w, row, login, requesterID, filter) ==
  LET gs == GrantRows(w, row.id)
      matches == /\ \/ (filter.Key = "name" /\ row.name = filter.Value)
                    \/ (filter.Key = "mime" /\ row.mime = filter.Value)
                    \/ filter.Key = ""
                 /\ (login = "" \/ LoginOfUser(row.owner_id) = login)
  IN IF ~matches THEN 0
     ELSE IF Len(gs) = 0 THEN 1
     ELSE Len(gs)

\* the rows of documents d JOIN users u LEFT JOIN grants g that belong to one
\* document row and pass the WHERE clause: their number
JoinedRows(w, row, login, requesterID, filter) ==
  LET gs == GrantRows(w, row.id)
      visible(g) == row.is_public \/ row.owner_id = requesterID \/ g = requesterID
      matches == /\ \/ (filter.Key = "name" /\ row.name = filter.Value)
                    \/ (filter.Key = "mime" /\ row.mime = filter.Value)
                    \/ filter.Key = ""
                 /\ (login = "" \/ LoginOfUser(row.owner_id) = login)
  IN IF ~matches THEN 0
     ELSE IF Len(gs) = 0 THEN (IF visible("NULL") THEN 1 ELSE 0)
     ELSE Cardinality({i \in 1..Len(gs) : visible(gs[i].user_id)})

\* ORDER BY d.name ASC, d.created_at DESC
RowBefore(r1, r2) ==
  \/ NameRank(r1.name) < NameRank(r2.name)
  \/ (r1.name = r2.name /\ r1.created_at > r2.created_at)

RECURSIVE OrderedRows(_, _)
OrderedRows(w, ids) ==
  IF ids = {} THEN <<>>
  ELSE LET first == CHOOSE i \in ids :
                      \A j \in ids \ {i} : RowBefore(w.documents[i], w.documents[j])
       IN <<w.documents[first]>> \o OrderedRows(w, ids \ {first})

\* n copies of x
Repeat(x, n) == [i \in 1..n |-> x]

RECURSIVE ResultRows(_, _, _, _, _)
ResultRows(w, rows, login, requesterID, filter) ==
  IF Len(rows) = 0 THEN <<>>
  ELSE Repeat(Head(rows), JoinedRows(w, Head(rows), login, requesterID, filter))
       \o ResultRows(w, Tail(rows), login, requesterID, filter)

\* LIMIT $5, appended when filter.Limit > 0
Limited(rows, limit) ==
  IF limit > 0 /\ Len(rows) > limit THEN SubSeq(rows, 1, limit) ELSE rows

\* [w, docs, err].  SelectContext reports no sql.ErrNoRows for an empty result;
\* the service also accepts a repository that reports ErrDocumentNotFound then
\* ("notfound").
FilteredDocuments(w, login, requesterID, filter, F) ==
  LET o == Imposed(w, "FilteredDocuments", F)
      arg == <<login, requesterID, filter.Key, filter.Value>>
      rows == Limited(ResultRows(w, OrderedRows(w, DOMAIN w.documents),
                                 login, requesterID, filter), filter.Limit)
  IN IF o = "err"
       THEN [w |-> Called(w, "FilteredDocuments", arg, FALSE, {}),
             docs |-> <<>>, err |-> ErrOther]
       ELSE IF o = "notfound" /\ Len(rows) = 0
         THEN [w |-> Called(w, "FilteredDocuments", arg, FALSE, {}),
               docs |-> <<>>, err |-> ErrDocumentNotFound]
         ELSE [w |-> Called(w, "FilteredDocuments", arg, TRUE,
                            IF Len(rows) = 0 THEN {"err", "notfound"} ELSE {"err"}),
               docs |-> [i \in 1..Len(rows) |-> DocOfRow(w, rows[i])],
               err |-> Nil]

------------------------------------------------------------------------------
(* Document service: ListDocuments *)

\* a store that reports ErrDocumentNotFound fails the listing
ListFromStore_NotFoundIsError(w, requester, login, filter, cacheKey, F) ==
  IF ~IsValid(filter)
    THEN [w |-> w, docs |-> <<>>, isNil |-> TRUE, err |-> ErrInvalidParams]
    ELSE LET r == FilteredDocuments(w, login, requester.ID, filter, F)
         IN IF r.err # Nil
              THEN [w |-> r.w, docs |-> <<>>, isNil |-> TRUE, err |-> ErrInternal]
              ELSE [w |-> CacheSet(r.w, cacheKey, docsToJSON(r.docs), F).w,
                    docs |-> r.docs, isNil |-> FALSE, err |-> Nil]

\* the filter is not validated
ListFromStore_NoValidation(w, requester, login, filter, cacheKey, F) ==
  LET r == FilteredDocuments(w, login, requester.ID, filter, F)
  IN IF r.err # Nil
       THEN [w |-> r.w, docs |-> <<>>, isNil |-> TRUE,
             err |-> IF r.err = ErrDocumentNotFound THEN Nil ELSE ErrInternal]
       ELSE [w |-> CacheSet(r.w, cacheKey, docsToJSON(r.docs), F).w,
             docs |-> r.docs, isNil |-> FALSE, err |-> Nil]

\* lines 237-263: the cache miss; isNil: the returned slice is nil
ListFromStore(w, requester, login, filter, cacheKey, F) ==
  IF ~IsValid(filter)
    THEN [w |-> w, docs |-> <<>>, isNil |-> TRUE, err |-> ErrInvalidParams]
    ELSE LET r == FilteredDocuments(w, login, requester.ID, filter, F)
         IN IF r.err # Nil
              THEN [w |-> r.w, docs |-> <<>>, isNil |-> TRUE,
                    err |-> IF r.err = ErrDocumentNotFound THEN Nil ELSE ErrInternal]
              ELSE [w |-> CacheSet(r.w, cacheKey, docsToJSON(r.docs), F).w,
                    docs |-> r.docs, isNil |-> FALSE, err |-> Nil]

\* [w, docs, isNil, err, fromCache]
ListDocuments(w, requester, login, filter, F) ==
  LET cacheKey == ListCacheKey(requester.Login, login, filter)
      g == CacheGet(w, cacheKey, F)
  IN IF g.err # Nil \/ g.val = Empty
       THEN ListFromStore(g.w, requester, login, filter, cacheKey, F)
            @@ [fromCache |-> FALSE]
       ELSE LET d == jsonToDocs(g.val)
            IN IF d.err # Nil
                 THEN [w |-> g.w, docs |-> <<>>, isNil |-> TRUE, err |-> ErrInternal,
                       fromCache |-> TRUE]
                 ELSE [w |-> g.w, docs |-> d.docs, isNil |-> FALSE, err |-> Nil,
                       fromCache |-> TRUE]

------------------------------------------------------------------------------
(* Operations as the callers issue them *)

NoUser == [ID |-> "", Login |-> ""]
NoFilter == [Key |-> "", Value |-> "", Limit |-> 0]

\* a call of the service: the operation and its arguments
NoCall == [op |-> "none", requester |-> NoUser, docID |-> "", doc0 |-> NoDoc,
           content |-> <<>>, grantList |-> <<>>, login |-> "", filter |-> NoFilter]

\* the result of a call, every field present whatever the operation
NoResult == [err |-> Nil, id |-> "", doc |-> NoDoc, file |-> NoFile, docs |-> <<>>,
             isNil |-> TRUE, fromCache |-> FALSE, resolved |-> NoDoc]

\* the result record of a call from what its operation returned
Result(r) ==
  [x \in DOMAIN NoResult |-> IF x \in DOMAIN r THEN r[x] ELSE NoResult[x]]
  @@ [w |-> r.w]

\* the result of call c in world w under the fault set F, with the world after it
RunOp(w, c, n, F) ==
  CASE c.op = "UploadDocument" ->
         Result(UploadDocument(w, c.requester, c.doc0, c.content, NewID(n), n, F))
    [] c.op = "DocumentByID" -> Result(DocumentByID(w, c.docID, c.requester, F))
    [] c.op = "DeleteDocument" -> Result(DeleteDocument(w, c.docID, c.requester, F))
    [] c.op = "GrantAccess" ->
         Result(GrantAccess(w, c.docID, c.requester, c.grantList, F))
    [] c.op = "ListDocuments" ->
         Result(ListDocuments(w, c.requester, c.login, c.filter, F))

\* The outcomes of call c: one for each fault set the environment can impose,
\* a fault set failing (or answering "notfound" to) some of the collaborator
\* calls the operation really makes, at most MaxFaults of them.  A fault on the
\* i-th call changes only what follows it, so faults are added in call order.
RECURSIVE Outcomes(_, _, _, _, _)
\* the outcome r under F, and the outcomes under F extended by one more fault
\* on a call of r from position from on
MoreFaults(w, c, n, F, from, r) ==
  {r} \cup UNION { UNION { Outcomes(w, c, n,
                             F \cup {<<r.w.calls[i].call,
                                       CountCalls(SubSeq(r.w.calls, 1, i),
                                                  r.w.calls[i].call),
                                       o>>},
                             i + 1) : o \in r.w.calls[i].alt }
                   : i \in IF Cardinality(F) < MaxFaults
                              THEN from..Len(r.w.calls) ELSE {} }

Outcomes(w, c, n, F, from) == MoreFaults(w, c, n, F, from, RunOp(w, c, n, F))

\* no operation has run since the last result was handed to its caller
Idle == NoCall @@ NoResult @@ [calls |-> <<>>]

\* call c runs, atomically, with one of the outcomes rs
Perform(c, rs) ==
  /\ last = Idle
  /\ \E r \in rs :
     /\ documents' = r.w.documents
     /\ grants' = r.w.grants
     /\ blobs' = r.w.blobs
     /\ cache' = r.w.cache
     /\ nextID' = IF c.op = "UploadDocument" THEN nextID + 1 ELSE nextID
     /\ last' = c @@ [x \in DOMAIN NoResult |-> r[x]] @@ [calls |-> r.w.calls]

\* call c runs under some fault set
Issue(c) == Perform(c, Outcomes(World, c, nextID, {}, 1)) /\ UNCHANGED phase

\* call c runs with no collaborator failing
IssueNoFault(c) == Perform(c, {RunOp(World, c, nextID, {})})

------------------------------------------------------------------------------
(* Inputs *)

\* grant lists of user IDs, as the upload handler resolves them from logins
RECURSIVE SeqsUpTo(_, _)
SeqsUpTo(S, n) ==
  IF n = 0 THEN {<<>>}
  ELSE LET shorter == SeqsUpTo(S, n - 1)
       IN shorter \cup {Append(s, x) : s \in shorter, x \in S}

GrantLists == SeqsUpTo(UserIDs, MaxGrants)

\* the documents the upload handler builds: the owner is the requester
UploadDocs(requester, names) ==
  {[NoDoc EXCEPT !.OwnerID = requester.ID, !.Name = nm, !.Mime = "text/plain",
                 !.IsFile = f, !.IsPublic = p, !.Grants = g,
                 !.JSONData = IF f THEN "" ELSE "{}"]
     : nm \in names, f \in BOOLEAN, p \in BOOLEAN, g \in GrantLists}

Contents == {<<1>>, <<2>>}

\* the identifiers generated so far
KnownIDs == {NewID(n) : n \in 1..(nextID - 1)}

------------------------------------------------------------------------------
(* Actions *)

Init ==
  /\ documents = <<>>
  /\ grants = <<>>
  /\ blobs = <<>>
  /\ cache = <<>>
  /\ nextID = 1
  /\ last = Idle
  /\ phase = 0

Upload ==
  /\ nextID <= MaxDocs
  /\ \E r \in Users : \E d \in UploadDocs(r, {"a.txt"}) : \E c \in Contents :
       Issue([NoCall EXCEPT !.op = "UploadDocument", !.requester = r, !.doc0 = d,
                            !.content = IF d.IsFile THEN c ELSE <<>>])

Resolve ==
  \E r \in Users : \E id \in KnownIDs :
    Issue([NoCall EXCEPT !.op = "DocumentByID", !.requester = r, !.docID = id])

Delete ==
  \E r \in Users : \E id \in KnownIDs :
    Issue([NoCall EXCEPT !.op = "DeleteDocument", !.requester = r, !.docID = id])

Grant ==
  \E r \in Users : \E id \in KnownIDs : \E g \in GrantLists :
    Issue([NoCall EXCEPT !.op = "GrantAccess", !.requester = r, !.docID = id,
                         !.grantList = g])

\* an entry reaches its TTL
Expire ==
  /\ last = Idle
  /\ \E k \in DOMAIN cache : cache' = Drop(cache, {k})
  /\ UNCHANGED <<documents, grants, blobs, nextID, last, phase>>

\* the result is handed to the caller
Return ==
  /\ last # Idle
  /\ last' = Idle
  /\ UNCHANGED <<documents, grants, blobs, cache, nextID, phase>>

Next == Upload \/ Resolve \/ Delete \/ Grant \/ Expire \/ Return

Spec == Init /\ [][Next]_vars

------------------------------------------------------------------------------
(* Runs with listings: uploads, listings, grant replacements and deletes *)

\* the filters of the listings: none, and one that IsValid rejects
ListFilters == {NoFilter, [Key |-> "", Value |-> "x", Limit |-> 0]}

\* the owner-login arguments of the listings
ListLogins == {"", "alice"}

\* the grant lists of the listed documents: none, one user, both users
ListedGrants == {g \in GrantLists : g \in {<<>>, <<"id-b">>, <<"id-a", "id-b">>}}

\* the call of a listing
ListCall(r, l, f) ==
  [NoCall EXCEPT !.op = "ListDocuments", !.requester = r, !.login = l, !.filter = f]

\* a listing runs under some fault set
List ==
  /\ \E r \in Users : \E l \in ListLogins : \E f \in ListFilters :
       Perform(ListCall(r, l, f), Outcomes(World, ListCall(r, l, f), nextID, {}, 1))
  /\ UNCHANGED phase

\* uploads of JSON documents, no collaborator failing
UploadListed ==
  /\ nextID <= MaxDocs
  /\ \E r \in Users : \E d \in UploadDocs(r, {"a.txt"}) :
       /\ ~d.IsFile
       /\ d.Grants \in ListedGrants
       /\ IssueNoFault([NoCall EXCEPT !.op = "UploadDocument", !.requester = r,
                                      !.doc0 = d])
  /\ UNCHANGED phase

\* a user replaces the grants of a document, no collaborator failing
GrantListed ==
  /\ \E r \in Users : \E id \in KnownIDs : \E g \in ListedGrants :
       IssueNoFault([NoCall EXCEPT !.op = "GrantAccess", !.requester = r,
                                   !.docID = id, !.grantList = g])
  /\ UNCHANGED phase

NextList == UploadListed \/ List \/ GrantListed \/ Expire \/ Return

SpecList == Init /\ [][NextList]_vars

------------------------------------------------------------------------------
(* The scripted run of the sharing scenario: owner A uploads a private inline
   document without grants, grants B access, then replaces the grants with the
   empty list.  Between the script steps anybody resolves the document any
   number of times and cache entries expire.  No call of the stores fails and
   no cache Del; the cache reads and writes of the resolves may fail. *)

ScriptDoc == NewID(1)
ScriptOwner == CHOOSE u \in Users : u.ID = documents[ScriptDoc].owner_id

ScriptUpload ==
  /\ phase = 0
  /\ \E a \in Users : \E nm \in Range(Names) :
       IssueNoFault([NoCall EXCEPT !.op = "UploadDocument", !.requester = a,
                                   !.doc0 = [NoDoc EXCEPT !.OwnerID = a.ID, !.Name = nm,
                                                          !.Mime = "application/json",
                                                          !.JSONData = "{}"]])
  /\ phase' = 1

ScriptGrant ==
  /\ phase = 1
  /\ \E b \in Users \ {ScriptOwner} :
       IssueNoFault([NoCall EXCEPT !.op = "GrantAccess", !.requester = ScriptOwner,
                                   !.docID = ScriptDoc, !.grantList = <<b.ID>>])
  /\ phase' = 2

ScriptRevoke ==
  /\ phase = 2
  /\ IssueNoFault([NoCall EXCEPT !.op = "GrantAccess", !.requester = ScriptOwner,
                                 !.docID = ScriptDoc, !.grantList = <<>>])
  /\ phase' = 3

\* the outcomes of call c in which only cache Get and Set calls fail
CacheReadWriteFaults(c) ==
  {r \in Outcomes(World, c, nextID, {}, 1) :
     \A i \in 1..Len(r.w.calls) : r.w.calls[i].ok \/ r.w.calls[i].call \in {"Get", "Set"}}

ScriptResolve ==
  /\ phase >= 1
  /\ \E r \in Users :
       LET c == [NoCall EXCEPT !.op = "DocumentByID", !.requester = r,
                               !.docID = ScriptDoc]
       IN Perform(c, CacheReadWriteFaults(c))
  /\ UNCHANGED phase

NextScript ==
  ScriptUpload \/ ScriptGrant \/ ScriptRevoke \/ ScriptResolve \/ Expire \/ Return

SpecScript == Init /\ [][NextScript]_vars

------------------------------------------------------------------------------
(* Reading the record of the last operation *)

HasCall(calls, name) == \E i \in 1..Len(calls) : calls[i].call = name
FailedCall(calls, name) == \E i \in 1..Len(calls) : calls[i].call = name /\ ~calls[i].ok
AllCallsOK(calls) == \A i \in 1..Len(calls) : calls[i].ok
\* the calls named name, in order
CallsNamed(calls, name) == SelectSeq(calls, LAMBDA c : c.call = name)

Logins == {u.Login : u \in Users}

\* the documents of the Metadata Store as the repository returns them
StoredDocs == {DocOfRow(World, documents[id]) : id \in DOMAIN documents}

------------------------------------------------------------------------------
(* Claims *)

\* C1: for every stored document D and every requester identity (ID, login),
\* hasReadAccess is D.IsPublic or D.OwnerID = ID or login among D.Grants
\* (owner by ID, grants by login); and DocumentByID returns ErrForbidden exactly
\* when it resolved a document on which that predicate is false.
C1_ReadAccess ==
  /\ \A D \in StoredDocs : \A id \in UserIDs : \A login \in Logins :
        hasReadAccess(D, id, login)
          <=> (D.IsPublic \/ D.OwnerID = id
                 \/ \E i \in 1..Len(D.Grants) : D.Grants[i] = login)
  /\ last.op = "DocumentByID" =>
        ((last.err = ErrForbidden)
           <=> /\ last.resolved # NoDoc
               /\ ~last.resolved.IsPublic
               /\ last.resolved.OwnerID # last.requester.ID
               /\ \A i \in 1..Len(last.resolved.Grants) :
                     last.resolved.Grants[i] # last.requester.Login)

\* a requester who is not the owner read a private document through a grant
C1_Witness ==
  /\ last.op = "DocumentByID" /\ last.err = Nil
  /\ ~last.resolved.IsPublic
  /\ last.resolved.OwnerID # last.requester.ID
  /\ Contains(last.resolved.Grants, last.requester.Login)

\* C2: hasDeleteAccess and hasGrantAccess are true iff D.OwnerID = R.ID, so
\* false for every other requester, granted or not, public document or not.
C2_OwnerOnly ==
  \A D \in StoredDocs : \A u \in Users :
    /\ hasDeleteAccess(D, u.ID) <=> (D.OwnerID = u.ID)
    /\ hasGrantAccess(D, u.ID) <=> (D.OwnerID = u.ID)

\* a public document with a grant for a user who is not its owner
C2_Witness ==
  \E D \in StoredDocs : \E u \in Users :
    /\ D.IsPublic /\ Contains(D.Grants, u.Login) /\ D.OwnerID # u.ID
    /\ ~hasDeleteAccess(D, u.ID) /\ ~hasGrantAccess(D, u.ID)

\* C3: DeleteDocument and GrantAccess by a requester who is not the owner of
\* the resolved document return ErrForbidden, issue no docRepo.Delete, no
\* docRepo.GrantAccess, no DeleteFile and no cache Del, and leave the tables
\* documents and grants and the blobs unchanged.
C3_ForbiddenFrame ==
  [][(/\ last'.op \in {"DeleteDocument", "GrantAccess"}
      /\ last'.resolved # NoDoc
      /\ last'.resolved.OwnerID # last'.requester.ID)
     => /\ last'.err = ErrForbidden
        /\ \A n \in {"Delete", "GrantAccess", "DeleteFile", "Del"} :
              ~HasCall(last'.calls, n)
        /\ UNCHANGED <<documents, grants, blobs>>]_vars

\* a granted user was refused the replacement of the grants of a document
C3_Witness ==
  /\ last.op = "GrantAccess" /\ last.err = ErrForbidden
  /\ Contains(last.resolved.Grants, last.requester.Login)
  /\ Len(last.grantList) > 0

\* C4: in the scripted run, a resolve by B (any user other than the owner A)
\* returns ErrForbidden after the upload, succeeds after A granted B access, and
\* returns ErrForbidden again after A replaced the grants with the empty list,
\* whatever resolves ran before and filled the cache; the script steps succeed.
C4_Scenario ==
  /\ last.op \in {"UploadDocument", "GrantAccess"} => last.err = Nil
  /\ (last.op = "DocumentByID" /\ last.requester # ScriptOwner) =>
        /\ phase \in {1, 3} => (last.err = ErrForbidden /\ last.doc = NoDoc)
        /\ phase = 2 => (last.err = Nil /\ last.doc.ID = ScriptDoc
                           /\ Contains(last.doc.Grants, last.requester.Login))

\* after the revocation B is refused on an entry a resolve put in the cache
C4_Witness ==
  /\ phase = 3
  /\ last.op = "DocumentByID" /\ last.requester # ScriptOwner
  /\ last.err = ErrForbidden
  /\ ~HasCall(last.calls, "DocumentByID")

\* the identifier the last UploadDocument generated
LastID == NewID(nextID - 1)

\* C5: whenever the Metadata Store holds a record with IsFile = true, the
\* Blob Store holds the blob of that document.
C5_NoRecordWithoutBlob ==
  \A id \in DOMAIN documents : documents[id].is_file => id \in DOMAIN blobs

\* a resolve of the last generated identifier, no store call failing: its errors
\* for every requester, with the cache read working and failing
ResolveErrs ==
  {DocumentByID(World, LastID, r, F).err : r \in Users, F \in {{}, {<<"Get", 1, "err">>}}}

C7_SaveFileFailure ==
  [][(last'.op = "UploadDocument" /\ FailedCall(last'.calls, "SaveFile"))
     => /\ last'.err = ErrInternal /\ last'.id = ""
        /\ Len(last'.calls) = 1
        /\ \A n \in {"CreateDocument", "GrantAccess", "Set", "Del"} :
              ~HasCall(last'.calls, n)
        /\ UNCHANGED <<documents, grants, cache>>]_vars

\* an upload with grants stopped at the failed SaveFile
C7_Witness ==
  /\ last.op = "UploadDocument" /\ FailedCall(last.calls, "SaveFile")
  /\ last.doc0.IsFile /\ Len(last.doc0.Grants) > 0
  /\ last.err = ErrInternal

\* C8: if CreateDocument fails during UploadDocument, DeleteFile is issued
\* (once, for the generated ID) exactly when the document is file-backed, no
\* GrantAccess and no cache Del is issued, and the upload returns ErrInternal
\* with an empty ID whether that DeleteFile succeeds or fails.
C8_CreateFailure ==
  (last.op = "UploadDocument" /\ FailedCall(last.calls, "CreateDocument")) =>
     /\ last.err = ErrInternal /\ last.id = ""
     /\ Len(CallsNamed(last.calls, "DeleteFile")) = (IF last.doc0.IsFile THEN 1 ELSE 0)
     /\ \A i \in 1..Len(last.calls) :
           last.calls[i].call = "DeleteFile" => last.calls[i].arg = <<LastID>>
     /\ ~HasCall(last.calls, "GrantAccess") /\ ~HasCall(last.calls, "Del")

\* the compensating DeleteFile failed too, and ErrInternal was reported
C8_Witness ==
  /\ last.op = "UploadDocument" /\ FailedCall(last.calls, "CreateDocument")
  /\ FailedCall(last.calls, "DeleteFile")
  /\ last.err = ErrInternal

\* C9: after UploadDocument of a file-backed document with content C returned
\* ID i without error, DocumentByID(i) by the uploader (no collaborator call
\* failing) returns a document with IsFile = true and ID = i and a stream whose
\* bytes are C.
C9_UploadRoundTrip ==
  (last.op = "UploadDocument" /\ last.err = Nil /\ last.doc0.IsFile) =>
     LET r == DocumentByID(World, last.id, last.requester, {})
     IN /\ last.id = LastID
        /\ r.err = Nil
        /\ r.doc.IsFile /\ r.doc.ID = last.id
        /\ r.file.open /\ r.file.bytes = last.content

\* a private file with grants was uploaded while the cache was failing
C9_Witness ==
  /\ last.op = "UploadDocument" /\ last.err = Nil /\ last.doc0.IsFile
  /\ ~last.doc0.IsPublic /\ FailedCall(last.calls, "Del")
  /\ DocumentByID(World, last.id, last.requester, {}).file.bytes = last.content

\* C10: after UploadDocument by requester R returns successfully with every
\* cache call succeeding, no list-cache entry that ListDocuments wrote for R
\* is left, so a ListDocuments call by R with arguments cached before is
\* answered from the Metadata Store and includes the new document when it
\* matches.
C10_UploadInvalidatesLists ==
  (last.op = "UploadDocument" /\ last.err = Nil /\ AllCallsOK(last.calls)) =>
    \A l \in ListLogins : \A f \in {g \in ListFilters : IsValid(g)} :
      LET r == ListDocuments(World, last.requester, l, f, {})
      IN /\ ListCacheKey(last.requester.Login, l, f) \notin DOMAIN cache
         /\ ~r.fromCache
         /\ (l \in {"", last.requester.Login} =>
               \E i \in 1..Len(r.docs) : r.docs[i].ID = last.id)

\* C11: after the grants of an upload were persisted, one cache Del is issued
\* per element of doc.Grants, its key built from the login of that granted
\* user (the identifier ListDocuments puts in that user's keys), and then one
\* for the requester.
C11_GrantKeysByLogin ==
  (last.op = "UploadDocument" /\ last.err = Nil /\ Len(last.doc0.Grants) > 0) =>
     LET dels == CallsNamed(last.calls, "Del")
         gs == last.doc0.Grants
     IN /\ Len(dels) = Len(gs) + 1
        /\ \A i \in 1..Len(gs) : dels[i].arg = <<UserCacheKey(LoginOfUser(gs[i]))>>
        /\ dels[Len(dels)].arg = <<UserCacheKey(last.requester.Login)>>

\* the valid filters of the listings
ValidListFilters == {f \in ListFilters : IsValid(f)}

\* C12: after GrantAccess returned OK (cache calls succeeding) with a grant
\* list that omits a user L of the private document's previous grant set, L
\* not the owner, no ListDocuments call by L returns that document, whatever
\* lists L had cached before.
C12_RevokedNotListed ==
  (/\ last.op = "GrantAccess" /\ last.err = Nil /\ AllCallsOK(last.calls)
   /\ ~last.resolved.IsPublic) =>
     \A u \in Users :
       (/\ Contains(last.resolved.Grants, u.Login)
        /\ u.ID # last.resolved.OwnerID
        /\ ~Contains(last.grantList, u.ID)) =>
          \A l \in ListLogins : \A f \in ValidListFilters :
            \A d \in Range(ListDocuments(World, u, l, f, {}).docs) : d.ID # last.docID

\* the user IDs of the grant rows stored for document id
GrantedIDs(id) == {g.user_id : g \in Range(GrantRows(World, id))}

\* C13: after GrantAccess(docID, owner, G) returned OK the grant rows stored for
\* the document are exactly the users of G, one row each (a previous grant not
\* in G is gone); if docRepo.GrantAccess fails, GrantAccess returns ErrInternal
\* and issues no cache Del.
C13_GrantReplace ==
  last.op = "GrantAccess" =>
     /\ last.err = Nil =>
          /\ GrantedIDs(last.docID) = Range(last.grantList)
          /\ Len(GrantRows(World, last.docID)) = Len(last.grantList)
     /\ FailedCall(last.calls, "GrantAccess") =>
          (last.err = ErrInternal /\ ~HasCall(last.calls, "Del"))

\* a grant replacement dropped a user the document was granted to before
C13_Witness ==
  /\ last.op = "GrantAccess" /\ last.err = Nil
  /\ Len(last.grantList) > 0
  /\ \E u \in Users : /\ Contains(last.resolved.Grants, u.Login)
                      /\ ~Contains(last.grantList, u.ID)
                      /\ u.ID \notin GrantedIDs(last.docID)

\* the outcomes of call c under the fault sets that fail only calls named in
\* names, at most MaxFaults of them
RECURSIVE OutcomesOn(_, _, _, _, _, _)
MoreFaultsOn(names, w, c, n, F, from, r) ==
  {r} \cup UNION { UNION { OutcomesOn(names, w, c, n,
                             F \cup {<<r.w.calls[i].call,
                                       CountCalls(SubSeq(r.w.calls, 1, i),
                                                  r.w.calls[i].call),
                                       o>>},
                             i + 1) : o \in r.w.calls[i].alt }
                   : i \in IF Cardinality(F) < MaxFaults
                              THEN {j \in from..Len(r.w.calls) :
                                      r.w.calls[j].call \in names}
                              ELSE {} }

OutcomesOn(names, w, c, n, F, from) ==
  MoreFaultsOn(names, w, c, n, F, from, RunOp(w, c, n, F))

\* the calls a caller can issue in the current state
CallsToTry ==
  {[NoCall EXCEPT !.op = "DocumentByID", !.requester = r, !.docID = id]
     : r \in Users, id \in KnownIDs}
  \cup {[NoCall EXCEPT !.op = "DeleteDocument", !.requester = r, !.docID = id]
     : r \in Users, id \in KnownIDs}
  \cup {[NoCall EXCEPT !.op = "GrantAccess", !.requester = r, !.docID = id,
                       !.grantList = g] : r \in Users, id \in KnownIDs, g \in GrantLists}
  \cup {ListCall(r, l, f) : r \in Users, l \in ListLogins, f \in ListFilters}
  \cup UNION {{[NoCall EXCEPT !.op = "UploadDocument", !.requester = r, !.doc0 = d,
                              !.content = IF d.IsFile THEN <<1>> ELSE <<>>]
                 : d \in UploadDocs(r, {"a.txt"})} : r \in Users}

\* what an operation hands back to its caller
Returned(r) == <<r.err, r.id, r.doc, r.file, r.docs, r.isNil>>

\* C14: no cache failure is surfaced: every operation returns the same value
\* and error when its cache Get fails as when the Get finds nothing, and the
\* same value and error whichever of its cache Set and Del calls fail.
C14_CacheFailuresHidden ==
  last = Idle =>
    \A c \in CallsToTry :
      /\ Returned(RunOp(World, c, nextID, {<<"Get", 1, "err">>}))
           = Returned(RunOp([World EXCEPT !.cache = <<>>], c, nextID, {}))
      /\ \A r \in OutcomesOn({"Set", "Del"}, World, c, nextID, {}, 1) :
           Returned(r) = Returned(RunOp(World, c, nextID, {}))

\* a resolve succeeded from the store although its cache Get and Set failed
C14_Witness ==
  /\ last.op = "DocumentByID" /\ last.err = Nil /\ last.doc.ID = last.docID
  /\ FailedCall(last.calls, "Get") /\ FailedCall(last.calls, "Set")

\* the fault sets of a resolution: none, the cache read, the store read, both
ResolveFaults == SUBSET {<<"Get", 1, "err">>, <<"DocumentByID", 1, "err">>}

\* documentMetaByID(id) under F meets C15: if it read the store and the store
\* reported an error, it returns ErrDocumentNotFound for ErrDocumentNotFound
\* and ErrInternal for any other error, no document, and issues no cache Set
MissErrors(id, F) ==
  (/\ HasCall(documentMetaByID(World, id, F).w.calls, "DocumentByID")
   /\ RepoDocumentByID(World, id, F).err # Nil) =>
     /\ documentMetaByID(World, id, F).err
          = (IF RepoDocumentByID(World, id, F).err = ErrDocumentNotFound
               THEN ErrDocumentNotFound ELSE ErrInternal)
     /\ documentMetaByID(World, id, F).doc = NoDoc
     /\ ~HasCall(documentMetaByID(World, id, F).w.calls, "Set")
     /\ documentMetaByID(World, id, F).w.cache = cache

\* C15: on a cache miss documentMetaByID returns ErrDocumentNotFound when the
\* Metadata Store reports ErrDocumentNotFound and ErrInternal for every other
\* store error; in both cases no cache Set is issued and no document returned.
C15_MissErrors ==
  /\ \A id \in KnownIDs : \A F \in ResolveFaults : MissErrors(id, F)
  /\ (/\ last.op \in {"DocumentByID", "DeleteDocument", "GrantAccess"}
      /\ FailedCall(last.calls, "DocumentByID")) =>
        /\ last.err \in {ErrDocumentNotFound, ErrInternal}
        /\ last.err = ErrDocumentNotFound => last.docID \notin DOMAIN documents
        /\ last.doc = NoDoc /\ last.resolved = NoDoc
        /\ ~HasCall(last.calls, "Set")

\* a resolve of a deleted document missed the cache and found no row
C15_Witness ==
  /\ last.op = "DocumentByID" /\ last.err = ErrDocumentNotFound
  /\ FailedCall(last.calls, "DocumentByID")
  /\ last.docID \in KnownIDs
  /\ \E F \in ResolveFaults : documentMetaByID(World, last.docID, F).err = ErrInternal

------------------------------------------------------------------------------
(* Runs in which entries of the cache get corrupted *)

\* values that are no serialized document: a JSON array and a non-JSON text
CorruptValues == {<<"array", <<>>>>, <<"text">>}

\* the cache server holds, under a document's ID, a value the service never wrote
Corrupt ==
  /\ last = Idle
  /\ \E id \in KnownIDs : \E v \in CorruptValues : cache' = Put(cache, id, v)
  /\ UNCHANGED <<documents, grants, blobs, nextID, last, phase>>

NextCorrupt == UploadListed \/ Resolve \/ Delete \/ Grant \/ Corrupt \/ Expire \/ Return

SpecCorrupt == Init /\ [][NextCorrupt]_vars

\* the cache holds under id a value that does not deserialize to a document
CorruptEntry(id) == id \in DOMAIN cache /\ jsonToDoc(cache[id]).err # Nil

\* C16: when the cache Get for a document ID returns a non-empty value that does
\* not deserialize to a document, the resolution returns ErrInternal and no
\* document, makes no call after the Get (the Metadata Store is not queried)
\* and leaves the corrupt entry in the cache.
C16_CorruptEntry ==
  [][(/\ last = Idle
      /\ last'.op \in {"DocumentByID", "DeleteDocument", "GrantAccess"}
      /\ CorruptEntry(last'.docID)
      /\ last'.calls[1].ok)
     => /\ last'.err = ErrInternal
        /\ last'.doc = NoDoc /\ last'.resolved = NoDoc
        /\ Len(last'.calls) = 1 /\ last'.calls[1].call = "Get"
        /\ UNCHANGED <<documents, grants, blobs, cache>>]_vars

\* a resolve of a stored public document failed on its corrupt cache entry
C16_Witness ==
  /\ last.op = "DocumentByID" /\ last.err = ErrInternal
  /\ Len(last.calls) = 1 /\ last.calls[1].ok
  /\ CorruptEntry(last.docID)
  /\ last.docID \in DOMAIN documents /\ documents[last.docID].is_public

\* the Metadata Store is unreachable
StoreDown == {<<"DocumentByID", 1, "err">>}

\* the last operation resolved its document from the store, wrote it to the
\* cache, and changed nothing afterwards
ResolvedAndCached ==
  /\ last.op \in {"DocumentByID", "DeleteDocument", "GrantAccess"}
  /\ \E i \in 1..Len(last.calls) : last.calls[i].call = "DocumentByID" /\ last.calls[i].ok
  /\ \E i \in 1..Len(last.calls) : last.calls[i].call = "Set" /\ last.calls[i].ok
  /\ \A n \in {"Delete", "GrantAccess", "Del", "DeleteFile"} : ~HasCall(last.calls, n)

\* C17: if a documentMetaByID(id) missed the cache, read the store and its
\* cache Set succeeded, a second documentMetaByID(id) with no mutation in
\* between returns metadata equal field by field to the first result without
\* calling the Metadata Store, also when the store is unreachable.
C17_SecondFromCache ==
  ResolvedAndCached =>
    \A F \in {{}, StoreDown} :
      /\ documentMetaByID(World, last.docID, F).err = Nil
      /\ documentMetaByID(World, last.docID, F).doc = last.resolved
      /\ ~HasCall(documentMetaByID(World, last.docID, F).w.calls, "DocumentByID")

\* a granted private document was resolved from the store and cached
C17_Witness ==
  /\ ResolvedAndCached
  /\ last.op = "DocumentByID" /\ last.err = Nil
  /\ ~last.resolved.IsPublic /\ Len(last.resolved.Grants) > 0
  /\ documentMetaByID(World, last.docID, StoreDown).doc = last.doc

\* C18: on a list-cache miss (Get error or empty value) ListDocuments with a
\* filter for which IsValid is false returns ErrInvalidParams and a nil list,
\* calls neither docRepo.FilteredDocuments nor the cache Set, and leaves the
\* cache as it was.
C18_InvalidFilter ==
  [][(/\ last = Idle
      /\ last'.op = "ListDocuments"
      /\ ~IsValid(last'.filter)
      /\ (~last'.calls[1].ok
          \/ ListCacheKey(last'.requester.Login, last'.login, last'.filter)
               \notin DOMAIN cache))
     => /\ last'.err = ErrInvalidParams
        /\ last'.isNil /\ last'.docs = <<>>
        /\ Len(last'.calls) = 1 /\ last'.calls[1].call = "Get"
        /\ UNCHANGED <<documents, grants, blobs, cache>>]_vars

\* a listing with an invalid filter was refused after its cache Get failed,
\* with a document in the store that the requester may read
C18_Witness ==
  /\ last.op = "ListDocuments" /\ ~IsValid(last.filter)
  /\ ~last.calls[1].ok
  /\ last.err = ErrInvalidParams
  /\ \E id \in DOMAIN documents : documents[id].owner_id = last.requester.ID

------------------------------------------------------------------------------
(* DocumentFilter.IsValid over a range of filters *)

FilterKeys == {"", "name", "mime", "unknown", "Name"}
FilterValues == {"", "x", "a.txt"}
FilterLimits == {-1, 0, 1, 5}
Filters == [Key : FilterKeys, Value : FilterValues, Limit : FilterLimits]

\* a filter arrives: last holds it, nothing has run
InitFilter ==
  /\ documents = <<>> /\ grants = <<>> /\ blobs = <<>> /\ cache = <<>>
  /\ nextID = 1
  /\ phase = 0
  /\ \E f \in Filters : last = [Idle EXCEPT !.op = "IsValid", !.filter = f]

\* f.IsValid() runs; last.err is Nil for true and ErrInvalidParams for false
Validate ==
  /\ phase = 0
  /\ last' = [last EXCEPT !.err = IF IsValid(last.filter) THEN Nil ELSE ErrInvalidParams]
  /\ phase' = 1
  /\ UNCHANGED <<documents, grants, blobs, cache, nextID>>

SpecFilter == InitFilter /\ [][Validate]_vars

\* C19: IsValid is false exactly when Key is empty and Value is not, or Key is
\* non-empty and not one of "name", "mime"; it is true otherwise, for every
\* Limit: {Key:"",Value:"x"} and {Key:"unknown",Value:"x"} are invalid,
\* {Key:"mime",Value:"",Limit:5} and the all-empty filter are valid.
C19_IsValid ==
  /\ phase = 1 =>
       ((last.err = ErrInvalidParams)
          <=> \/ (last.filter.Key = "" /\ last.filter.Value # "")
              \/ (last.filter.Key # "" /\ last.filter.Key \notin {"name", "mime"}))
  /\ phase = 1 => last.err \in {Nil, ErrInvalidParams}
  /\ ~IsValid([Key |-> "", Value |-> "x", Limit |-> 0])
  /\ ~IsValid([Key |-> "unknown", Value |-> "x", Limit |-> 0])
  /\ IsValid([Key |-> "mime", Value |-> "", Limit |-> 5])
  /\ IsValid([Key |-> "", Value |-> "", Limit |-> 0])

\* the filter {Key:"mime",Value:"",Limit:5} was found valid
C19_Witness ==
  /\ phase = 1 /\ last.op = "IsValid"
  /\ last.filter = [Key |-> "mime", Value |-> "", Limit |-> 5]
  /\ last.err = Nil

\* ListDocuments(r, l, f) under F meets C20 when it misses the cache
ListMiss(r, l, f, F) ==
  ~ListDocuments(World, r, l, f, F).fromCache =>
    IF FilteredDocuments(World, l, r.ID, f, F).err = ErrDocumentNotFound
      THEN /\ ListDocuments(World, r, l, f, F).err = Nil
           /\ ListDocuments(World, r, l, f, F).isNil
           /\ ~HasCall(ListDocuments(World, r, l, f, F).w.calls, "Set")
           /\ ListDocuments(World, r, l, f, F).w.cache = cache
    ELSE IF FilteredDocuments(World, l, r.ID, f, F).err # Nil
      THEN /\ ListDocuments(World, r, l, f, F).err = ErrInternal
           /\ ListDocuments(World, r, l, f, F).isNil
           /\ ~HasCall(ListDocuments(World, r, l, f, F).w.calls, "Set")
           /\ ListDocuments(World, r, l, f, F).w.cache = cache
      ELSE /\ ListDocuments(World, r, l, f, F).err = Nil
           /\ ~ListDocuments(World, r, l, f, F).isNil
           /\ ListDocuments(World, r, l, f, F).docs
                = FilteredDocuments(World, l, r.ID, f, F).docs
           /\ Len(CallsNamed(ListDocuments(World, r, l, f, F).w.calls, "Set")) = 1
           /\ CallsNamed(ListDocuments(World, r, l, f, F).w.calls, "Set")[1].arg
                = <<ListCacheKey(r.Login, l, f)>>

\* the fault sets of a listing: the cache read and write fail or not, the store
\* query works, reports ErrDocumentNotFound or fails
ListFaults ==
  {G \cup S : G \in SUBSET {<<"Get", 1, "err">>, <<"Set", 1, "err">>},
              S \in {{}, {<<"FilteredDocuments", 1, "notfound">>},
                     {<<"FilteredDocuments", 1, "err">>}}}

\* C20: on a list-cache miss with a valid filter ListDocuments returns (nil,
\* nil) when the Metadata Store reports ErrDocumentNotFound and ErrInternal for
\* every other store error, writing no list-cache entry in either case; on
\* store success it returns the list and issues one cache Set under the
\* composite key.
C20_ListMiss ==
  last = Idle =>
    \A r \in Users : \A l \in ListLogins : \A f \in ValidListFilters :
      \A F \in ListFaults : ListMiss(r, l, f, F)

\* a listing missed the cache, the store reported no document, and (nil, nil)
\* was returned
C20_Witness ==
  /\ last.op = "ListDocuments" /\ IsValid(last.filter) /\ ~last.fromCache
  /\ FailedCall(last.calls, "FilteredDocuments")
  /\ last.err = Nil /\ last.isNil
  /\ ~HasCall(last.calls, "Set")

------------------------------------------------------------------------------
(* The list cache key over a range of argument tuples *)

KeyRequesterLogins == {"a", "a:a"}
KeyOwnerLogins == {"", "a", "a:name:a"}
KeyFilters == [Key : {"", "name"}, Value : {"", "a", "a:name:a"}, Limit : {0, 1}]

\* the arguments of a listing, as the list handler takes them from the query
KeyCalls ==
  {ListCall([ID |-> "id-a", Login |-> r], l, f)
     : r \in KeyRequesterLogins, l \in KeyOwnerLogins, f \in KeyFilters}

\* a listing arrives: last holds its arguments, nothing has run
InitKey ==
  /\ documents = <<>> /\ grants = <<>> /\ blobs = <<>> /\ cache = <<>>
  /\ nextID = 1
  /\ phase = 0
  /\ \E c \in KeyCalls : last = [Idle EXCEPT !.op = c.op, !.requester = c.requester,
                                             !.login = c.login, !.filter = c.filter]

\* lines 233-235: the key is composed and read from the cache
ComposeKey ==
  /\ phase = 0
  /\ last' = [last EXCEPT !.calls =
                CacheGet(World, ListCacheKey(last.requester.Login, last.login,
                                             last.filter), {}).w.calls]
  /\ phase' = 1
  /\ UNCHANGED <<documents, grants, blobs, cache, nextID>>

SpecKey == InitKey /\ [][ComposeKey]_vars

\* C21: the list cache key is an injective function of (requester login, owner
\* login, filter key, filter value, limit): the key read for a tuple is the key
\* of that tuple and of no other tuple, also when components contain ':'.
C21_KeyInjective ==
  phase = 1 =>
    \A c \in KeyCalls :
      (<<ListCacheKey(c.requester.Login, c.login, c.filter)>> = last.calls[1].arg)
        <=> (/\ c.requester.Login = last.requester.Login
             /\ c.login = last.login
             /\ c.filter = last.filter)

------------------------------------------------------------------------------
(* Runs with filtered listings: every kind of filter, one cached list at most *)

\* the number of cached entries beyond which no further listing is started
MaxCached == 1

\* the filters of the listings: none, by name (matching one upload or the
\* other), by mime (matching every upload or none)
VisibleFilters ==
  {NoFilter,
   [Key |-> "name", Value |-> "a.txt", Limit |-> 0],
   [Key |-> "name", Value |-> "b.txt", Limit |-> 0],
   [Key |-> "mime", Value |-> "text/plain", Limit |-> 0],
   [Key |-> "mime", Value |-> "image/png", Limit |-> 1]}

\* the owner-login arguments of the listings
VisibleLogins == {"", "alice", "bob"}

\* uploads of JSON documents under either name, no collaborator failing
UploadVisible ==
  /\ nextID <= MaxDocs
  /\ \E r \in Users : \E d \in UploadDocs(r, Range(Names)) :
       /\ ~d.IsFile
       /\ d.Grants \in ListedGrants
       /\ IssueNoFault([NoCall EXCEPT !.op = "UploadDocument", !.requester = r,
                                      !.doc0 = d])
  /\ UNCHANGED phase

\* a filtered listing runs under some fault set
ListVisible ==
  /\ Cardinality(DOMAIN cache) < MaxCached
  /\ \E r \in Users : \E l \in VisibleLogins : \E f \in VisibleFilters :
       Perform(ListCall(r, l, f), Outcomes(World, ListCall(r, l, f), nextID, {}, 1))
  /\ UNCHANGED phase

NextVisible == UploadVisible \/ ListVisible \/ GrantListed \/ Expire \/ Return

SpecVisible == Init /\ [][NextVisible]_vars

\* C22: every document a listing returns on a cache miss is a stored document
\* that the requester may read at query time (public, owned by the requester's
\* ID, or granted to the requester), whose owner has the login asked for when
\* one is given, and whose name or mime equals the filter value when the filter
\* has a key.
C22_ListedVisible ==
  (last.op = "ListDocuments" /\ ~last.fromCache) =>
    \A i \in 1..Len(last.docs) :
      /\ last.docs[i] \in StoredDocs
      /\ hasReadAccess(last.docs[i], last.requester.ID, last.requester.Login)
      /\ \/ last.docs[i].IsPublic
         \/ last.docs[i].OwnerID = last.requester.ID
         \/ \E j \in 1..Len(GrantRows(World, last.docs[i].ID)) :
              GrantRows(World, last.docs[i].ID)[j].user_id = last.requester.ID
      /\ last.login # "" => LoginOfUser(last.docs[i].OwnerID) = last.login
      /\ last.filter.Key = "name" => last.docs[i].Name = last.filter.Value
      /\ last.filter.Key = "mime" => last.docs[i].Mime = last.filter.Value
      /\ last.filter.Key \in {"", "name", "mime"}

\* a listing by owner login and name missed the cache and returned a private
\* document of the other user that is granted to the requester
C22_Witness ==
  /\ last.op = "ListDocuments" /\ ~last.fromCache /\ last.err = Nil
  /\ last.login # "" /\ last.filter.Key = "name"
  /\ Len(last.docs) > 0
  /\ ~last.docs[1].IsPublic
  /\ last.docs[1].OwnerID # last.requester.ID

------------------------------------------------------------------------------
(* DeleteDocument step by step *)

\* the fault sets of a delete whose metadata deletion reports no such document
DeleteNotFoundFaults ==
  {{<<"Delete", 1, "notfound">>},
   {<<"Delete", 1, "notfound">>, <<"Del", 1, "err">>}}

\* the delete of a non-file document by its owner, run in the current state
\* under F, when docRepo.Delete reports ErrDocumentNotFound: what is recorded
\* and returned.  m is the resolution, d the delete.
OwnerDeleteNotFound(r, id, F, m, d) ==
  (/\ m.err = Nil
   /\ hasDeleteAccess(m.doc, r.ID)
   /\ ~m.doc.IsFile
   /\ RepoDelete(m.w, id, F).err = ErrDocumentNotFound) =>
     /\ d.err = Nil
     /\ Len(CallsNamed(d.w.calls, "Del")) = 1
     /\ CallsNamed(d.w.calls, "Del")[1].arg = <<m.doc.ID, "docs:" \o r.Login>>
     /\ ~HasCall(d.w.calls, "DeleteFile")
     /\ d.w.calls[Len(d.w.calls)].call = "Del"

\* C23: DeleteDocument by the owner of a non-file document returns nil when
\* docRepo.Delete reports ErrDocumentNotFound; the cache Del of the document ID
\* and of the requester's key "docs:<login>" is still issued, once, after the
\* Delete, and no blob call is made.
C23_DeleteNotFoundTolerated ==
  last = Idle =>
    \A r \in Users : \A id \in KnownIDs : \A F \in DeleteNotFoundFaults :
      OwnerDeleteNotFound(r, id, F, documentMetaByID(World, id, F),
                          DeleteDocument(World, id, r, F))

\* the owner's delete of a non-file document returned nil although its
\* docRepo.Delete call failed
C23_Witness ==
  /\ last.op = "DeleteDocument" /\ last.err = Nil
  /\ ~last.resolved.IsFile
  /\ last.resolved.OwnerID = last.requester.ID
  /\ FailedCall(last.calls, "Delete")
  /\ HasCall(last.calls, "Del")
  /\ ~HasCall(last.calls, "DeleteFile")

\* the fault sets of a delete that reaches its blob step
DeleteBlobFaults ==
  {F \in SUBSET {<<"Delete", 1, "notfound">>, <<"Del", 1, "err">>,
                 <<"DeleteFile", 1, "err">>} : Cardinality(F) <= MaxFaults}

\* the world in which the blob step of a delete runs under F: after the
\* metadata deletion and the cache invalidation.  m is the resolution.
BeforeBlobStep(r, id, F, m) ==
  CacheDel(RepoDelete(m.w, id, F).w, <<m.doc.ID, "docs:" \o r.Login>>, F).w

\* the blob step of the owner's delete of a file-backed document, run in the
\* current state under F.  m is the resolution, d the delete, f the DeleteFile
\* call in the world the delete makes it in.
OwnerDeleteBlobStep(r, id, F, m, d, f) ==
  (/\ m.err = Nil
   /\ hasDeleteAccess(m.doc, r.ID)
   /\ m.doc.IsFile
   /\ RepoDelete(m.w, id, F).err \in {Nil, ErrDocumentNotFound}) =>
     /\ d.w.calls = f.w.calls
     /\ d.w.calls[Len(d.w.calls)].call = "DeleteFile"
     /\ d.w.calls[Len(d.w.calls) - 1].call = "Del"
     /\ d.w.calls[Len(d.w.calls) - 2].call = "Delete"
     /\ f.err = ErrDocumentNotFound => d.err = ErrDocumentNotFound
     /\ f.err \notin {Nil, ErrDocumentNotFound} => d.err = ErrInternal
     /\ f.err = Nil => d.err = Nil

\* C24: in DeleteDocument of a file-backed document, after the metadata
\* deletion and the cache invalidation, a DeleteFile that reports
\* ErrDocumentNotFound makes the delete return ErrDocumentNotFound and any other
\* DeleteFile error makes it return ErrInternal; a delete by the owner returns
\* nil only if its metadata deletion failed with nothing but
\* ErrDocumentNotFound and its DeleteFile succeeded.
C24_BlobStep ==
  /\ last = Idle =>
       \A r \in Users : \A id \in KnownIDs : \A F \in DeleteBlobFaults :
         OwnerDeleteBlobStep(r, id, F, documentMetaByID(World, id, F),
                             DeleteDocument(World, id, r, F),
                             DeleteFile(BeforeBlobStep(r, id, F,
                                          documentMetaByID(World, id, F)),
                                        documentMetaByID(World, id, F).doc, F))
  /\ (last.op = "DeleteDocument" /\ last.err = Nil /\ last.resolved.IsFile) =>
       /\ HasCall(last.calls, "Delete") /\ HasCall(last.calls, "DeleteFile")
       /\ ~FailedCall(last.calls, "DeleteFile")

\* the delete of a file-backed document whose blob was already gone returned
\* ErrDocumentNotFound after its metadata deletion and cache invalidation
C24_Witness ==
  /\ last.op = "DeleteDocument" /\ last.err = ErrDocumentNotFound
  /\ last.resolved.IsFile
  /\ HasCall(last.calls, "Delete") /\ HasCall(last.calls, "Del")
  /\ FailedCall(last.calls, "DeleteFile")
  /\ last.docID \notin DOMAIN blobs

\* the fault sets of a delete whose metadata deletion fails, or fails on the
\* grant rows that reference the document
DeleteFailFaults ==
  {{}, {<<"Delete", 1, "err">>}, {<<"Get", 1, "err">>, <<"Delete", 1, "err">>}}

\* the owner's delete, run in the current state under F, when docRepo.Delete
\* fails with an error other than ErrDocumentNotFound.  m is the resolution, d
\* the delete.
OwnerDeleteFails(r, id, F, m, d) ==
  (/\ m.err = Nil
   /\ hasDeleteAccess(m.doc, r.ID)
   /\ RepoDelete(m.w, id, F).err \notin {Nil, ErrDocumentNotFound}) =>
     /\ d.err = ErrInternal
     /\ d.w.calls = RepoDelete(m.w, id, F).w.calls
     /\ d.w.calls[Len(d.w.calls)].call = "Delete"
     /\ ~HasCall(d.w.calls, "Del")
     /\ ~HasCall(d.w.calls, "DeleteFile")
     /\ d.w.blobs = blobs
     /\ d.w.cache = m.w.cache
     /\ \A k \in DOMAIN cache : k \in DOMAIN d.w.cache
     /\ d.w.documents = documents
     /\ d.w.grants = grants

\* C25: if docRepo.Delete fails with an error other than ErrDocumentNotFound,
\* DeleteDocument returns ErrInternal and stops: the Delete is its last call,
\* no cache Del and no DeleteFile is issued, and the blobs, the records and
\* the cache entries are as the resolution of the document left them.
C25_DeleteFailureStops ==
  last = Idle =>
    \A r \in Users : \A id \in KnownIDs : \A F \in DeleteFailFaults :
      OwnerDeleteFails(r, id, F, documentMetaByID(World, id, F),
                       DeleteDocument(World, id, r, F))

\* the owner's delete of a cached file-backed document stopped at its failing
\* metadata deletion: blob and cache entry are still there
C25_Witness ==
  /\ last.op = "DeleteDocument" /\ last.err = ErrInternal
  /\ last.resolved.OwnerID = last.requester.ID
  /\ last.resolved.IsFile
  /\ FailedCall(last.calls, "Delete")
  /\ last.calls[Len(last.calls)].call = "Delete"
  /\ last.docID \in DOMAIN blobs
  /\ last.docID \in DOMAIN cache

\* no record and no cache entry of document id
Absent(id) == id \notin DOMAIN documents /\ id \notin DOMAIN cache

\* every requester's resolve of id returns ErrDocumentNotFound, with the cache
\* read working and failing
NoneResolves(id) ==
  \A r \in Users : \A F \in {{}, {<<"Get", 1, "err">>}} :
    DocumentByID(World, id, r, F).err = ErrDocumentNotFound

------------------------------------------------------------------------------
(* Errors of absence and of missing rights *)

\* the error of an operation on document id by requester r, run in the current
\* state with no collaborator failing, when the document is absent or r lacks
\* the right: m is the resolution, e the error returned, can the access
\* decision, blobStep whether the operation goes on to the blob of a
\* file-backed document
AbsenceAndRights(id, m, e, can, blobStep) ==
  /\ m.err = ErrDocumentNotFound => e = ErrDocumentNotFound
  /\ (m.err = Nil /\ ~can) => e = ErrForbidden
  /\ (m.err = Nil /\ can /\ blobStep /\ m.doc.IsFile /\ id \notin DOMAIN blobs
        /\ Len(GrantRows(World, id)) = 0) =>
       e = ErrDocumentNotFound
  /\ (id \notin DOMAIN documents /\ id \notin DOMAIN cache) => e = ErrDocumentNotFound

\* C27: in DocumentByID, DeleteDocument and GrantAccess, with no collaborator
\* failing, the absence of the document's metadata record or, for a
\* file-backed document, of its blob is returned as ErrDocumentNotFound and
\* missing rights as ErrForbidden, never as ErrInternal.
C27_AbsenceNotInternal ==
  last = Idle =>
    \A r \in Users : \A id \in KnownIDs :
      /\ AbsenceAndRights(id, documentMetaByID(World, id, {}),
                          DocumentByID(World, id, r, {}).err,
                          hasReadAccess(documentMetaByID(World, id, {}).doc,
                                        r.ID, r.Login), TRUE)
      /\ AbsenceAndRights(id, documentMetaByID(World, id, {}),
                          DeleteDocument(World, id, r, {}).err,
                          hasDeleteAccess(documentMetaByID(World, id, {}).doc, r.ID),
                          TRUE)
      /\ \A g \in GrantLists :
           AbsenceAndRights(id, documentMetaByID(World, id, {}),
                            GrantAccess(World, id, r, g, {}).err,
                            hasGrantAccess(documentMetaByID(World, id, {}).doc, r.ID),
                            FALSE)

------------------------------------------------------------------------------
(* Collaborator calls of one operation *)

\* the collaborator calls an operation makes once at most
OnceCalls ==
  {"SaveFile", "CreateDocument", "GrantAccess", "Delete", "DeleteFile",
   "DocumentByID", "FilteredDocuments", "LoadFile", "Get", "Set"}

\* the calls of one operation that works on nGrants grants: none of OnceCalls
\* twice, one Del and one more for each grant at most, six calls and one for
\* each grant at most
CallsBounded(calls, nGrants) ==
  /\ \A name \in OnceCalls : CountCalls(calls, name) <= 1
  /\ CountCalls(calls, "Del") <= 1 + nGrants
  /\ Len(calls) <= 6 + nGrants
  /\ \A i \in 1..Len(calls) : calls[i].call \in OnceCalls \cup {"Del"}

\* C28: within one operation no failed store or cache call is re-issued:
\* SaveFile, CreateDocument, docRepo.GrantAccess, docRepo.Delete, DeleteFile,
\* docRepo.DocumentByID, FilteredDocuments, LoadFile, cache Get and cache Set
\* are each invoked once at most, and the operation ends after a number of
\* calls bounded by a constant plus the number of grants (of the uploaded
\* document, or of the resolved one), whatever calls fail.
C28_NoRetry ==
  /\ CallsBounded(last.calls, Len(last.doc0.Grants) + Len(last.resolved.Grants))
  /\ last = Idle =>
       \A r \in Users : \A l \in ListLogins : \A f \in ListFilters :
         \A o \in Outcomes(World, ListCall(r, l, f), nextID, {}, 1) :
           CallsBounded(o.w.calls, 0)

\* an upload with grants ran into two failing calls and ended after one call
\* of each kind
C28_Witness ==
  /\ last.op = "UploadDocument" /\ last.err = ErrInternal
  /\ Len(last.doc0.Grants) > 0
  /\ FailedCall(last.calls, "GrantAccess")
  /\ FailedCall(last.calls, "Delete")
  /\ CountCalls(last.calls, "GrantAccess") = 1
  /\ CountCalls(last.calls, "Delete") = 1

------------------------------------------------------------------------------
(* Runs with several uploads whose callers supply an ID *)

\* the number of uploads of a run
MaxUploads == 2

\* the IDs the callers put in the document they hand to UploadDocument: none,
\* the first generated identifier, another one
SuppliedIDs == {"", NewID(1), "mine"}

\* an upload of a document that carries an ID already, under some fault set
UploadWithID ==
  /\ nextID <= MaxUploads
  /\ \E r \in Users : \E d \in UploadDocs(r, {"a.txt"}) : \E i \in SuppliedIDs :
       /\ d.Grants \in ListedGrants
       /\ Perform([NoCall EXCEPT !.op = "UploadDocument", !.requester = r,
                                 !.doc0 = [d EXCEPT !.ID = i],
                                 !.content = IF d.IsFile THEN <<1>> ELSE <<>>],
                  Outcomes(World,
                           [NoCall EXCEPT !.op = "UploadDocument", !.requester = r,
                                          !.doc0 = [d EXCEPT !.ID = i],
                                          !.content = IF d.IsFile THEN <<1>> ELSE <<>>],
                           nextID, {}, 1))
  /\ UNCHANGED phase

\* a delete, no collaborator failing
DeleteStored ==
  /\ \E r \in Users : \E id \in KnownIDs :
       IssueNoFault([NoCall EXCEPT !.op = "DeleteDocument", !.requester = r,
                                   !.docID = id])
  /\ UNCHANGED phase

NextID == UploadWithID \/ DeleteStored \/ GrantListed \/ Expire \/ Return

SpecID == Init /\ [][NextID]_vars

\* the identifiers the store and blob calls of an operation were made with
IDsUsed(calls) ==
  {calls[i].arg[1] : i \in {j \in 1..Len(calls) :
                              calls[j].call \in {"SaveFile", "CreateDocument",
                                                 "GrantAccess", "Delete", "DeleteFile"}}}

\* C29: UploadDocument works under a freshly generated identifier whatever ID
\* the caller's document carries: every store and blob call of an upload,
\* successful or rolled back, and the ID it returns use an identifier that no
\* earlier upload was given; every record is stored under its own ID; and no
\* step changes the ID or the OwnerID of a record that stays in the store.
C29_FreshID ==
  /\ [](\A id \in DOMAIN documents :
          documents[id].id = id /\ id \in KnownIDs)
  /\ [][/\ last'.op = "UploadDocument" /\ last = Idle =>
             /\ IDsUsed(last'.calls) \subseteq {NewID(nextID)}
             /\ NewID(nextID) \notin KnownIDs
             /\ NewID(nextID) \in KnownIDs'
             /\ last'.id \in {"", NewID(nextID)}
             /\ last'.err = Nil => last'.id = NewID(nextID)
             /\ DOMAIN documents' \subseteq DOMAIN documents \cup {NewID(nextID)}
        /\ ~(last'.op = "UploadDocument" /\ last = Idle) =>
             DOMAIN documents' \subseteq DOMAIN documents
        /\ \A id \in DOMAIN documents \cap DOMAIN documents' :
             /\ documents'[id].id = documents[id].id
             /\ documents'[id].owner_id = documents[id].owner_id]_vars

\* the second upload carried the ID of the first document and was stored under
\* a new identifier, next to the first document
C29_Witness ==
  /\ last.op = "UploadDocument" /\ last.err = Nil
  /\ last.doc0.ID = NewID(1)
  /\ last.id = NewID(2)
  /\ DOMAIN documents = {NewID(1), NewID(2)}
  /\ documents[NewID(1)].owner_id # documents[NewID(2)].owner_id

------------------------------------------------------------------------------
(* HTTP handlers of one document: GetByID, HeadByID, Delete *)

StatusOK == 200
StatusBadRequest == 400
StatusForbidden == 403
StatusInternalServerError == 500

\* the tokens of the requests, and auth.UserByToken on them: [user, err]
Tokens == {"tok-a", "tok-b", "bad"}
UserByToken(token) ==
  IF token = "tok-a" THEN [user |-> CHOOSE u \in Users : u.Login = "alice", err |-> Nil]
  ELSE IF token = "tok-b" THEN [user |-> CHOOSE u \in Users : u.Login = "bob", err |-> Nil]
  ELSE [user |-> NoUser, err |-> ErrOther]

\* json.Unmarshal of a document's JSONData into a map
UnmarshalsToMap(jsonData) == jsonData = "{}"

\* what a handler leaves when the service was not called
NotCalled(w) == [w |-> w, err |-> Nil, resolved |-> NoDoc, called |-> FALSE]

\* the JSON error body, and the body of a bare status
JSONError(message) == <<"error", message>>
NoBody == <<>>

\* a document that is not found is answered 404
GetByID_NotFound404(w, docID, requester, ok, F) ==
  IF ~ok
    THEN NotCalled(w) @@ [status |-> StatusForbidden, body |-> JSONError(ErrForbidden)]
    ELSE LET r == DocumentByID(w, docID, requester, F)
         IN [w |-> r.w, err |-> r.err, resolved |-> r.resolved, called |-> TRUE] @@
            IF r.err = ErrForbidden
              THEN [status |-> StatusForbidden, body |-> JSONError(ErrForbidden)]
            ELSE IF r.err = ErrDocumentNotFound
              THEN [status |-> 404, body |-> JSONError(ErrDocumentNotFound)]
            ELSE IF r.err # Nil
              THEN [status |-> StatusBadRequest, body |-> JSONError(ErrInvalidParams)]
            ELSE IF r.doc.IsFile
              THEN [status |-> StatusOK, body |-> <<"file", r.file.bytes>>]
            ELSE IF ~UnmarshalsToMap(r.doc.JSONData)
              THEN [status |-> StatusInternalServerError,
                    body |-> JSONError("invalid json data")]
            ELSE [status |-> StatusOK, body |-> <<"data", r.doc.JSONData>>]

\* GetByID; ok: the request context holds a requester.  [w, status, body, err,
\* resolved, called]
GetByID(w, docID, requester, ok, F) ==
  IF ~ok
    THEN NotCalled(w) @@ [status |-> StatusForbidden, body |-> JSONError(ErrForbidden)]
    ELSE LET r == DocumentByID(w, docID, requester, F)
         IN [w |-> r.w, err |-> r.err, resolved |-> r.resolved, called |-> TRUE] @@
            IF r.err = ErrForbidden
              THEN [status |-> StatusForbidden, body |-> JSONError(ErrForbidden)]
            ELSE IF r.err # Nil
              THEN [status |-> StatusBadRequest, body |-> JSONError(ErrInvalidParams)]
            ELSE IF r.doc.IsFile
              THEN [status |-> StatusOK, body |-> <<"file", r.file.bytes>>]
            ELSE IF ~UnmarshalsToMap(r.doc.JSONData)
              THEN [status |-> StatusInternalServerError,
                    body |-> JSONError("invalid json data")]
            ELSE [status |-> StatusOK, body |-> <<"data", r.doc.JSONData>>]

\* HeadByID: statuses without a body
HeadByID(w, docID, requester, ok, F) ==
  IF ~ok
    THEN NotCalled(w) @@ [status |-> StatusForbidden, body |-> JSONError(ErrForbidden)]
    ELSE LET r == DocumentByID(w, docID, requester, F)
         IN [w |-> r.w, err |-> r.err, resolved |-> r.resolved, called |-> TRUE] @@
            IF r.err = ErrForbidden
              THEN [status |-> StatusForbidden, body |-> NoBody]
            ELSE IF r.err # Nil
              THEN [status |-> StatusBadRequest, body |-> NoBody]
            ELSE [status |-> StatusOK, body |-> NoBody]

\* the body of a successful delete: {"response": {<token>: true}}
DeleteResponse(token) == <<"response", token, TRUE>>

\* the delete handler (func Delete): the requester comes from the token
DeleteHandler(w, docID, token, F) ==
  IF UserByToken(token).err # Nil
    THEN NotCalled(w) @@ [status |-> StatusForbidden,
                          body |-> JSONError("token is invalid")]
    ELSE LET r == DeleteDocument(w, docID, UserByToken(token).user, F)
         IN [w |-> r.w, err |-> r.err, resolved |-> r.resolved, called |-> TRUE] @@
            IF r.err = ErrForbidden
              THEN [status |-> StatusForbidden, body |-> JSONError(ErrForbidden)]
            ELSE IF r.err # Nil
              THEN [status |-> StatusBadRequest, body |-> JSONError(ErrInvalidParams)]
            ELSE [status |-> StatusOK, body |-> DeleteResponse(token)]

\* the failures of collaborators a request can meet: none, or one failing call
HTTPFaults ==
  {{}} \cup {{<<name, 1, "err">>} :
               name \in {"Get", "DocumentByID", "LoadFile", "Delete", "Del", "DeleteFile"}}

\* the requester of the request context: a user, or none
ContextUsers == Users \cup {NoUser}

\* handler name answers a request with the response h
Served(name, docID, requester, token, h) ==
  /\ last = Idle
  /\ documents' = h.w.documents
  /\ grants' = h.w.grants
  /\ blobs' = h.w.blobs
  /\ cache' = h.w.cache
  /\ last' = [op |-> name, docID |-> docID, requester |-> requester, token |-> token,
              called |-> h.called, err |-> h.err, resolved |-> h.resolved,
              calls |-> h.w.calls, status |-> h.status, body |-> h.body]
  /\ UNCHANGED <<nextID, phase>>

ServeGetByID ==
  \E u \in ContextUsers : \E id \in KnownIDs : \E F \in HTTPFaults :
    Served("GetByID", id, u, "", GetByID(World, id, u, u # NoUser, F))

ServeHeadByID ==
  \E u \in ContextUsers : \E id \in KnownIDs : \E F \in HTTPFaults :
    Served("HeadByID", id, u, "", HeadByID(World, id, u, u # NoUser, F))

ServeDelete ==
  \E t \in Tokens : \E id \in KnownIDs : \E F \in HTTPFaults :
    Served("Delete", id, UserByToken(t).user, t, DeleteHandler(World, id, t, F))

NextHTTP == Upload \/ ServeGetByID \/ ServeHeadByID \/ ServeDelete \/ Expire \/ Return

SpecHTTP == Init /\ [][NextHTTP]_vars

\* C30: GetByID, HeadByID and the delete handler answer 403 when the request
\* carries no requester (no user in the context, or a token that resolves to
\* none) without calling the service, 403 when the service returns
\* ErrForbidden, and 400 for every other service error, ErrDocumentNotFound
\* and ErrInternal alike; the delete handler answers 200 with the body
\* {response: {<token>: true}} exactly when DeleteDocument returned nil.
C30_StatusOfErrors ==
  last.op \in {"GetByID", "HeadByID", "Delete"} =>
    /\ ~last.called <=> (IF last.op = "Delete" THEN UserByToken(last.token).err # Nil
                         ELSE last.requester = NoUser)
    /\ ~last.called => (last.status = StatusForbidden /\ last.calls = <<>>)
    /\ (last.called /\ last.err = ErrForbidden) => last.status = StatusForbidden
    /\ (last.called /\ last.err \notin {Nil, ErrForbidden}) =>
         last.status = StatusBadRequest
    /\ (last.called /\ last.err = Nil) =>
         last.status \in {StatusOK, StatusInternalServerError}
    /\ last.op = "Delete" =>
         /\ last.status = StatusOK <=> (last.called /\ last.err = Nil)
         /\ last.body = DeleteResponse(last.token) <=> (last.called /\ last.err = Nil)

\* GetByID answered 400 to a requester whose document is gone
C30_Witness ==
  /\ last.op = "GetByID" /\ last.called
  /\ last.err = ErrDocumentNotFound
  /\ last.status = StatusBadRequest

------------------------------------------------------------------------------
(* Order of the collaborator calls of an upload *)

\* the names of the calls, in order
CallNames(calls) == [i \in 1..Len(calls) |-> calls[i].call]

\* the call named name was made and succeeded
Succeeded(calls, name) == \E i \in 1..Len(calls) : calls[i].call = name /\ calls[i].ok

\* the calls an upload of doc makes, given which of its calls succeeded: each
\* step only after the one before succeeded, the record deleted before the blob
\* after a failed grant persistence, one Del for each grant and one for the
\* requester at the end
UploadSteps(doc, calls) ==
  (IF doc.IsFile THEN <<"SaveFile">> ELSE <<>>) \o
  (IF doc.IsFile /\ ~Succeeded(calls, "SaveFile") THEN <<>>
   ELSE <<"CreateDocument">> \o
     (IF ~Succeeded(calls, "CreateDocument")
        THEN (IF doc.IsFile THEN <<"DeleteFile">> ELSE <<>>)
      ELSE IF Len(doc.Grants) = 0 THEN <<"Del">>
      ELSE <<"GrantAccess">> \o
        (IF ~Succeeded(calls, "GrantAccess")
           THEN <<"Delete">> \o (IF doc.IsFile THEN <<"DeleteFile">> ELSE <<>>)
         ELSE [i \in 1..Len(doc.Grants) |-> "Del"] \o <<"Del">>)))

\* C31: in every run of UploadDocument the calls are, in this order, SaveFile
\* (only for a file), CreateDocument, docRepo.GrantAccess (only with grants)
\* and the cache invalidations, each step made only after the step before it
\* succeeded; after a failed CreateDocument only the blob is deleted, and after
\* a failed GrantAccess the metadata record is deleted before the blob.
C31_UploadOrder ==
  last.op = "UploadDocument" =>
    CallNames(last.calls) = UploadSteps(last.doc0, last.calls)

\* an upload of a file with grants failed at the grants and was rolled back,
\* record first
C31_Witness ==
  /\ last.op = "UploadDocument" /\ last.doc0.IsFile
  /\ FailedCall(last.calls, "GrantAccess")
  /\ CallNames(last.calls)
       = <<"SaveFile", "CreateDocument", "GrantAccess", "Delete", "DeleteFile">>

\* C32: DocumentByID calls LoadFile only after the read-access check succeeded
\* and only for a document with IsFile, as its last call: a call that ends in
\* ErrForbidden or ErrDocumentNotFound makes no LoadFile call, a non-file
\* document comes with a nil stream, and when LoadFile fails neither the
\* document nor a stream is returned.
C32_LoadAfterAccess ==
  last.op = "DocumentByID" =>
    /\ HasCall(last.calls, "LoadFile") <=>
         (/\ last.resolved # NoDoc
          /\ last.resolved.IsFile
          /\ hasReadAccess(last.resolved, last.requester.ID, last.requester.Login))
    /\ HasCall(last.calls, "LoadFile") =>
         /\ last.calls[Len(last.calls)].call = "LoadFile"
         /\ CountCalls(last.calls, "LoadFile") = 1
    /\ last.err \in {ErrForbidden, ErrDocumentNotFound} => ~HasCall(last.calls, "LoadFile")
    /\ (last.err = Nil /\ ~last.doc.IsFile) => last.file = NoFile
    /\ (last.err = Nil /\ last.doc.IsFile) => last.file.open
    /\ FailedCall(last.calls, "LoadFile") =>
         (last.doc = NoDoc /\ last.file = NoFile /\ last.err = ErrInternal)

\* a user without read access asked for a private file-backed document whose
\* blob is stored: ErrForbidden, and the blob was not opened
C32_Witness ==
  /\ last.op = "DocumentByID" /\ last.err = ErrForbidden
  /\ last.resolved.IsFile
  /\ last.docID \in DOMAIN blobs
  /\ ~HasCall(last.calls, "LoadFile")

------------------------------------------------------------------------------
(* repository.GrantAccess statement by statement: one transaction *)

\* the document whose grants are replaced, and the grant rows it may have
TxDoc == NewID(1)
RowsOf(docID, userIDs) ==
  [i \in 1..Len(userIDs) |-> [document_id |-> docID, user_id |-> userIDs[i]]]
TxOldGrants == {<<>>, <<"id-b">>, <<"id-a", "id-b">>}

\* the transaction is not begun, runs its DELETE, its INSERTs, its Commit, or
\* has returned
TxSteps == {"begin", "delete", "insert", "commit", "done"}

\* a stored document with grant rows, and a call GrantAccess(TxDoc, userIDs)
\* about to begin; old: the table before the call, tx: the table as the
\* transaction sees it, seen: what another operation last read
InitTx ==
  /\ \E owner \in UserIDs :
       documents = Put(<<>>, TxDoc,
                       [id |-> TxDoc, owner_id |-> owner, name |-> "a.txt",
                        mime |-> "text/plain", is_file |-> FALSE, is_public |-> FALSE,
                        json_data |-> "{}", created_at |-> 1])
  /\ \E old \in TxOldGrants : \E userIDs \in GrantLists :
       /\ grants = RowsOf(TxDoc, old)
       /\ last = [op |-> "repository.GrantAccess", docID |-> TxDoc, userIDs |-> userIDs,
                  old |-> RowsOf(TxDoc, old), tx |-> <<>>, step |-> "begin", i |-> 1,
                  err |-> Nil, seen |-> RowsOf(TxDoc, old)]
  /\ blobs = <<>> /\ cache = <<>>
  /\ nextID = 2
  /\ phase = 0

\* the call returns err; the deferred Rollback discards what the transaction
\* did
TxFails ==
  /\ last' = [last EXCEPT !.step = "done", !.err = ErrOther, !.tx = <<>>]
  /\ UNCHANGED <<documents, grants, blobs, cache, nextID, phase>>

\* BeginTxx
TxBegin ==
  /\ last.step = "begin"
  /\ \/ /\ last' = [last EXCEPT !.step = "delete", !.tx = grants]
        /\ UNCHANGED <<documents, grants, blobs, cache, nextID, phase>>
     \/ TxFails

\* the DELETE is executed on the connection pool, outside the transaction
TxDelete_Outside ==
  /\ last.step = "delete"
  /\ \/ /\ last' = [last EXCEPT !.step = "insert",
                      !.tx = SelectSeq(@, LAMBDA g : g.document_id # last.docID)]
        /\ grants' = SelectSeq(grants, LAMBDA g : g.document_id # last.docID)
        /\ UNCHANGED <<documents, blobs, cache, nextID, phase>>
     \/ TxFails

\* tx.ExecContext(DELETE FROM grants WHERE document_id = $1)
TxDelete ==
  /\ last.step = "delete"
  /\ \/ /\ last' = [last EXCEPT !.step = "insert",
                      !.tx = SelectSeq(@, LAMBDA g : g.document_id # last.docID)]
        /\ UNCHANGED <<documents, grants, blobs, cache, nextID, phase>>
     \/ TxFails

\* the row the next INSERT adds breaks no constraint: primary key
\* (document_id, user_id), foreign keys to documents and users
InsertOK(tx, docID, userID) ==
  /\ docID \in DOMAIN documents
  /\ userID \in UserIDs
  /\ \A j \in 1..Len(tx) : ~(tx[j].document_id = docID /\ tx[j].user_id = userID)

\* tx.ExecContext(INSERT INTO grants ...) for the next user ID
TxInsert ==
  /\ last.step = "insert"
  /\ last.i <= Len(last.userIDs)
  /\ \/ /\ InsertOK(last.tx, last.docID, last.userIDs[last.i])
        /\ last' = [last EXCEPT !.i = @ + 1,
                      !.tx = Append(@, [document_id |-> last.docID,
                                        user_id |-> last.userIDs[last.i]])]
        /\ UNCHANGED <<documents, grants, blobs, cache, nextID, phase>>
     \/ TxFails

\* tx.Commit()
TxCommit ==
  /\ last.step = "insert"
  /\ last.i > Len(last.userIDs)
  /\ \/ /\ grants' = last.tx
        /\ last' = [last EXCEPT !.step = "done", !.tx = <<>>]
        /\ UNCHANGED <<documents, blobs, cache, nextID, phase>>
     \/ TxFails

\* another operation reads the grant rows of the document (getGrants)
TxObserve ==
  /\ last.step # "done"
  /\ last' = [last EXCEPT !.seen = GrantRows(World, last.docID)]
  /\ UNCHANGED <<documents, grants, blobs, cache, nextID, phase>>

NextTx == TxBegin \/ TxDelete \/ TxInsert \/ TxCommit \/ TxObserve

SpecTx == InitTx /\ [][NextTx]_vars

\* the table and the error the one-step replacement gives on the table old
AtomicGrant ==
  RepoGrantAccess([World EXCEPT !.grants = last.old], last.docID, last.userIDs, {})

\* C33: repository.GrantAccess is atomic: while it runs, the grant rows of the
\* document in the table, and what another operation reads, are the rows from
\* before the call; when it has returned nil the rows are exactly the new
\* list, in order; when it has returned an error (begin, delete, an insert or
\* the commit failed) the table is as before the call.  A call that returned
\* nil leaves the table the one-step replacement gives.
C33_GrantsAtomic ==
  /\ last.step # "done" =>
       (grants = last.old /\ last.seen = GrantRows(World, last.docID))
  /\ last.seen \in {GrantRows([World EXCEPT !.grants = last.old], last.docID),
                    RowsOf(last.docID, last.userIDs)}
  /\ (last.step = "done" /\ last.err = Nil) =>
       /\ GrantRows(World, last.docID) = RowsOf(last.docID, last.userIDs)
       /\ AtomicGrant.err = Nil
       /\ grants = AtomicGrant.w.grants
  /\ (last.step = "done" /\ last.err # Nil) => grants = last.old
  /\ (last.step = "done" /\ AtomicGrant.err # Nil) => last.err # Nil

\* a replacement of two grant rows by two others failed at its second INSERT,
\* after its DELETE and its first INSERT, and the old rows are still there
C33_Witness ==
  /\ last.step = "done" /\ last.err # Nil
  /\ last.i = 2
  /\ Len(last.old) = 2
  /\ Len(last.userIDs) = 2
  /\ grants = last.old

------------------------------------------------------------------------------
(* Cache deletions of a grant replacement *)

\* the keys of the Del calls, call by call
DelKeys(calls) ==
  [i \in 1..Len(CallsNamed(calls, "Del")) |-> CallsNamed(calls, "Del")[i].arg]

\* C34: a successful GrantAccess issues cache deletions for the document ID
\* and the requester's key "docs:<login>" in one call, then for the key of each
\* login of the grant set resolved before the replacement, and no other: no
\* deletion names a user who appears only in the new grant list.
C34_GrantDeletions ==
  (last.op = "GrantAccess" /\ last.err = Nil) =>
    /\ DelKeys(last.calls)
         = <<<<last.resolved.ID, "docs:" \o last.requester.Login>>>>
           \o [i \in 1..Len(last.resolved.Grants) |->
                 <<"docs:" \o last.resolved.Grants[i]>>]
    /\ \A u \in Users :
         (/\ Contains(last.grantList, u.ID)
          /\ ~Contains(last.resolved.Grants, u.Login)
          /\ u # last.requester) =>
            \A i \in 1..Len(DelKeys(last.calls)) :
              /\ ~Contains(DelKeys(last.calls)[i], "docs:" \o u.Login)
              /\ ~Contains(DelKeys(last.calls)[i], "docs:" \o u.ID)

\* the owner replaced the grant of one user by a grant to the other: the key
\* of the old grantee was deleted, that of the new one was not
C34_Witness ==
  /\ last.op = "GrantAccess" /\ last.err = Nil
  /\ Len(last.resolved.Grants) = 1
  /\ Len(last.grantList) = 1
  /\ LoginOfUser(last.grantList[1]) # last.resolved.Grants[1]
  /\ LoginOfUser(last.grantList[1]) # last.requester.Login
  /\ Len(DelKeys(last.calls)) = 2

------------------------------------------------------------------------------
(* A resolve running call by call, next to whole grant replacements and deletes *)

RaceDoc == NewID(1)

\* where the resolve is: not started, after its cache miss, after its store
\* read, returned
ResolveSteps == {"idle", "read", "set", "returned"}

\* a stored document with grant rows and an empty cache; no resolve running
InitRace ==
  /\ \E owner \in UserIDs : \E p \in BOOLEAN :
       documents = Put(<<>>, RaceDoc,
                       [id |-> RaceDoc, owner_id |-> owner, name |-> "a.txt",
                        mime |-> "text/plain", is_file |-> FALSE, is_public |-> p,
                        json_data |-> "{}", created_at |-> 1])
  /\ \E old \in TxOldGrants : grants = RowsOf(RaceDoc, old)
  /\ blobs = <<>> /\ cache = <<>>
  /\ nextID = 2
  /\ phase = 0
  /\ last = [op |-> "DocumentByID", step |-> "idle", requester |-> NoUser,
             doc |-> NoDoc, err |-> Nil, granted |-> FALSE, deleted |-> FALSE]

\* documentMetaByID, line 286: the cache read; a hit ends the resolution
ResolveGet ==
  /\ last.step \in {"idle", "returned"}
  /\ \E r \in Users : \E g \in {CacheGet(World, RaceDoc, {})} :
       last' = IF g.val = Empty
                 THEN [last EXCEPT !.step = "read", !.requester = r, !.doc = NoDoc,
                                   !.err = Nil]
                 ELSE [last EXCEPT !.step = "returned", !.requester = r,
                                   !.doc = jsonToDoc(g.val).doc,
                                   !.err = jsonToDoc(g.val).err]
  /\ UNCHANGED <<documents, grants, blobs, cache, nextID, phase>>

\* line 290: the store read
ResolveRead ==
  /\ last.step = "read"
  /\ \E s \in {RepoDocumentByID(World, RaceDoc, {})} :
       last' = IF s.err # Nil
                 THEN [last EXCEPT !.step = "returned", !.err = s.err]
                 ELSE [last EXCEPT !.step = "set", !.doc = s.doc]
  /\ UNCHANGED <<documents, grants, blobs, cache, nextID, phase>>

\* lines 300-308: the document read is written to the cache and returned
ResolveSet ==
  /\ last.step = "set"
  /\ cache' = CacheSet(World, RaceDoc, docToJSON(last.doc), {}).w.cache
  /\ last' = [last EXCEPT !.step = "returned"]
  /\ UNCHANGED <<documents, grants, blobs, nextID, phase>>

\* a whole GrantAccess by some user, no collaborator failing
RaceGrant ==
  /\ \E r \in Users : \E gl \in ListedGrants :
       \E g \in {GrantAccess(World, RaceDoc, r, gl, {})} :
         /\ documents' = g.w.documents
         /\ grants' = g.w.grants
         /\ cache' = g.w.cache
         /\ last' = [last EXCEPT !.granted = @ \/ g.err = Nil]
  /\ UNCHANGED <<blobs, nextID, phase>>

\* a whole DeleteDocument by some user, no collaborator failing
RaceDelete ==
  /\ \E r \in Users : \E d \in {DeleteDocument(World, RaceDoc, r, {})} :
         /\ documents' = d.w.documents
         /\ grants' = d.w.grants
         /\ cache' = d.w.cache
         /\ blobs' = d.w.blobs
         /\ last' = [last EXCEPT !.deleted = @ \/ d.err = Nil]
  /\ UNCHANGED <<nextID, phase>>

\* the entry reaches its TTL
RaceExpire ==
  /\ RaceDoc \in DOMAIN cache
  /\ cache' = Drop(cache, {RaceDoc})
  /\ UNCHANGED <<documents, grants, blobs, nextID, last, phase>>

NextRace ==
  ResolveGet \/ ResolveRead \/ ResolveSet \/ RaceGrant \/ RaceDelete \/ RaceExpire

SpecRace == InitRace /\ [][NextRace]_vars

\* the cached entry of the document carries the grant set of the store
CachedGrantsCurrent ==
  RaceDoc \in DOMAIN cache =>
    jsonToDoc(cache[RaceDoc]).doc.Grants = getGrants(World, RaceDoc)

\* C35: for every interleaving of a resolve with a GrantAccess on the same
\* document, the cache calls succeeding, once both have returned the
\* per-document cache entry is absent or carries the grant set the Metadata
\* Store holds.
C35_NoStaleGrants ==
  (last.granted /\ last.step \in {"idle", "returned"} /\ RaceDoc \in DOMAIN documents) =>
     CachedGrantsCurrent

\* C36: for every interleaving of a resolve with a DeleteDocument by the owner
\* of the same document, once the delete has returned nil and the resolve has
\* returned, the cache holds no entry for the deleted ID and DocumentByID
\* returns ErrDocumentNotFound to every requester.
C36_NoEntryAfterDelete ==
  (last.deleted /\ last.step \in {"idle", "returned"}) =>
     /\ RaceDoc \notin DOMAIN cache
     /\ \A r \in Users : DocumentByID(World, RaceDoc, r, {}).err = ErrDocumentNotFound

------------------------------------------------------------------------------
(* An upload running call by call, next to whole resolves *)

\* where the upload is: before SaveFile, before CreateDocument, before the
\* grants, before the invalidations, returned
UploadSteps37 == {"save", "create", "grants", "invalidate", "returned"}

\* an upload of a document is about to make its first call: the ID and the
\* time are set (lines 47-48)
InitUploading ==
  /\ documents = <<>> /\ grants = <<>> /\ blobs = <<>> /\ cache = <<>>
  /\ nextID = 2
  /\ phase = 0
  /\ \E r \in Users : \E d \in UploadDocs(r, {"a.txt"}) :
       /\ d.Grants \in ListedGrants
       /\ last = [op |-> "UploadDocument", step |-> "save", requester |-> r,
                  doc |-> [d EXCEPT !.ID = NewID(1), !.CreatedAt = 1],
                  id |-> "", err |-> Nil, resolves |-> 0]

\* lines 50-56
UploadSave ==
  /\ last.step = "save"
  /\ blobs' = IF last.doc.IsFile THEN SaveFile(World, last.doc, <<1>>, {}).w.blobs
              ELSE blobs
  /\ last' = [last EXCEPT !.step = "create"]
  /\ UNCHANGED <<documents, grants, cache, nextID, phase>>

\* lines 58-66
UploadCreate ==
  /\ last.step = "create"
  /\ documents' = CreateDocument(World, last.doc, {}).w.documents
  /\ last' = [last EXCEPT !.step = "grants"]
  /\ UNCHANGED <<grants, blobs, cache, nextID, phase>>

\* lines 68-77: the grants are persisted, or the upload is rolled back
UploadPersistGrants ==
  /\ last.step = "grants"
  /\ \E g \in {IF Len(last.doc.Grants) > 0
                 THEN RepoGrantAccess(World, last.doc.ID, last.doc.Grants, {})
                 ELSE [w |-> World, err |-> Nil]} :
       IF g.err # Nil
         THEN /\ documents' = UploadGrantsFailed(g.w, last.doc, {}).w.documents
              /\ blobs' = UploadGrantsFailed(g.w, last.doc, {}).w.blobs
              /\ grants' = grants
              /\ last' = [last EXCEPT !.step = "returned", !.err = ErrInternal]
         ELSE /\ grants' = g.w.grants
              /\ last' = [last EXCEPT !.step = "invalidate"]
              /\ UNCHANGED <<documents, blobs>>
  /\ UNCHANGED <<cache, nextID, phase>>

\* lines 78-91: the invalidations, and the ID is returned
UploadInvalidate ==
  /\ last.step = "invalidate"
  /\ cache' = UploadFinish(InvalidateGrants(World, last.doc.Grants, {}),
                           last.requester, last.doc, {}).w.cache
  /\ last' = [last EXCEPT !.step = "returned", !.id = last.doc.ID]
  /\ UNCHANGED <<documents, grants, blobs, nextID, phase>>

\* the number of resolves that run next to one upload
MaxResolves == 2

\* a whole DocumentByID of the ID by some user, no collaborator failing
RaceResolve ==
  /\ last.resolves < MaxResolves
  /\ \E r \in Users :
       cache' = DocumentByID(World, last.doc.ID, r, {}).w.cache
  /\ last' = [last EXCEPT !.resolves = @ + 1]
  /\ UNCHANGED <<documents, grants, blobs, nextID, phase>>

NextUploading ==
  UploadSave \/ UploadCreate \/ UploadPersistGrants \/ UploadInvalidate \/ RaceResolve

SpecUploading == InitUploading /\ [][NextUploading]_vars

\* C37: after UploadDocument with non-empty Grants has returned an ID without
\* error, every resolve of that ID yields a document whose grant set is the
\* uploaded one and each grantee's DocumentByID succeeds, whatever resolves of
\* that ID ran between CreateDocument and the persistence of the grants.
C37_GranteesResolve ==
  (last.step = "returned" /\ last.err = Nil /\ Len(last.doc.Grants) > 0) =>
     \A u \in Users :
       /\ DocumentByID(World, last.doc.ID, u, {}).resolved.Grants
            = [i \in 1..Len(last.doc.Grants) |-> LoginOfUser(last.doc.Grants[i])]
       /\ Contains(last.doc.Grants, u.ID) =>
            DocumentByID(World, last.doc.ID, u, {}).err = Nil


\* C38: once GrantAccess has returned OK with a grant list that omits a user,
\* no DocumentByID by that user (not the owner, document not public) returns
\* the document, also when the cache Del calls of that GrantAccess failed
\* while an entry with the old grant set was cached.
C38_RevokedCannotRead ==
  (last.op = "GrantAccess" /\ last.err = Nil /\ last.docID \in DOMAIN documents) =>
     \A u \in Users :
       ( /\ ~Contains(last.grantList, u.Login)
         /\ ~Contains(last.grantList, u.ID)
         /\ documents[last.docID].owner_id # u.ID
         /\ ~documents[last.docID].is_public )
       => DocumentByID(World, last.docID, u, {}).err # Nil


\* C39: after any core operation has returned, every blob in the blob store
\* belongs to a document whose metadata record exists, also after a failed
\* upload whose compensating DeleteFile failed and after a DeleteDocument
\* whose blob deletion failed once the record was removed.
C39_NoOrphanBlob ==
  (last # Idle) => \A id \in DOMAIN blobs : id \in DOMAIN documents


\* C40: a listing on a cache miss returns each visible matching document at
\* most once, also a document with two or more grant rows, and at most
\* filter.Limit documents when filter.Limit > 0.
C40_ListedOnce ==
  (last.op = "ListDocuments" /\ ~last.fromCache /\ last.err = Nil) =>
     /\ \A i, j \in 1..Len(last.docs) :
          last.docs[i].ID = last.docs[j].ID => i = j
     /\ last.filter.Limit > 0 => Len(last.docs) <= last.filter.Limit

====
